---- MODULE Spec2Model ----
(***************************************************************************)
(* A model of the Doc2Doc function library (src/main.py).                  *)
(*                                                                         *)
(* A Python str whose characters the code inspects (slicing, split,        *)
(* replace, int(), upper()) is a sequence of one-character strings; a str  *)
(* the code only compares or tests for emptiness is a TLA+ string.  A      *)
(* Python dict is a sequence of <<key, value>> pairs with distinct keys,   *)
(* in insertion order.  A list or dict that is passed by reference lives   *)
(* in `heap` and is named by its index there.                              *)
(*                                                                         *)
(* One call is one behaviour step: the initial state holds the function    *)
(* name and the arguments of a pending call (pc = "call"), the function's  *)
(* action runs its whole body and leaves the outcome in `ret`              *)
(* (pc = "done").                                                          *)
(***************************************************************************)
EXTENDS Integers, Sequences, FiniteSets

VARIABLES
    pc,     \* "call": the call is pending, "done": it has returned or raised
    fn,     \* the name of the function called
    args,   \* its arguments, a record (references are indices into heap)
    ret,    \* the outcome: Pending, Return(v), ReturnNone or Raise(exc, msg)
    heap,   \* the mutable objects (lists, dicts) alive, a sequence of values
    heap0,  \* history: the heap as it was when the call was made
    console, \* the lines printed so far
    stack,  \* the frames of the recursive calls that have not returned
    trace   \* history: the calls made earlier, each with its outcome

vars == <<pc, fn, args, ret, heap, heap0, console, stack, trace>>

----------------------------------------------------------------------------
(* Outcomes of a call.                                                     *)

Pending == [kind |-> "pending"]
Return(v) == [kind |-> "return", val |-> v]
ReturnNone == [kind |-> "none"]
Raise(exc, msg) == [kind |-> "raise", exc |-> exc, msg |-> msg]

----------------------------------------------------------------------------
(* Sequences and strings.                                                  *)

Min(a, b) == IF a <= b THEN a ELSE b

\* All sequences over S of length at most n.
SeqsUpTo(S, n) == UNION {[1..k -> S] : k \in 0..n}

\* s[i:j] of Python for 0 <= i, 0 <= j (0-based, j exclusive, clipped).
Slice(s, i, j) ==
    LET lo == Min(i, Len(s))
        hi == Min(j, Len(s))
    IN  IF hi <= lo THEN <<>> ELSE SubSeq(s, lo + 1, hi)

\* s[i:] of Python for 0 <= i.
SliceFrom(s, i) == Slice(s, i, Len(s))

\* s.startswith(p)
StartsWith(s, p) == Len(p) <= Len(s) /\ SubSeq(s, 1, Len(p)) = p

----------------------------------------------------------------------------
(* int(text, 16) of Python, used by is_hexadecimal and hex_to_rgb.         *)

LowerHex == <<"0", "1", "2", "3", "4", "5", "6", "7", "8", "9",
              "a", "b", "c", "d", "e", "f">>
UpperHex == <<"0", "1", "2", "3", "4", "5", "6", "7", "8", "9",
              "A", "B", "C", "D", "E", "F">>
HexDigitChars == {LowerHex[i] : i \in 1..16} \cup {UpperHex[i] : i \in 1..16}
Whitespace == {" ", "\t", "\n"}

\* The value of one hexadecimal digit, in either letter case.
HexVal(c) == (CHOOSE i \in 1..16 : LowerHex[i] = c \/ UpperHex[i] = c) - 1

RECURSIVE LStrip(_)
LStrip(s) == IF s # <<>> /\ Head(s) \in Whitespace THEN LStrip(Tail(s)) ELSE s

RECURSIVE RStrip(_)
RStrip(s) ==
    IF s # <<>> /\ s[Len(s)] \in Whitespace
    THEN RStrip(SubSeq(s, 1, Len(s) - 1))
    ELSE s

\* text.strip()
Strip(s) == RStrip(LStrip(s))

\* The digit part int() accepts: hexadecimal digits with single underscores
\* between them, starting and ending with a digit.
DigitsOk(d) ==
    /\ d # <<>>
    /\ \A i \in 1..Len(d) : d[i] \in HexDigitChars \cup {"_"}
    /\ d[1] # "_"
    /\ d[Len(d)] # "_"
    /\ \A i \in 1..(Len(d) - 1) : ~(d[i] = "_" /\ d[i + 1] = "_")

RECURSIVE DigitsValue(_, _)
DigitsValue(d, acc) ==
    IF d = <<>> THEN acc
    ELSE IF Head(d) = "_" THEN DigitsValue(Tail(d), acc)
    ELSE DigitsValue(Tail(d), 16 * acc + HexVal(Head(d)))

\* int(text, 16): surrounding whitespace, an optional sign, an optional
\* 0x / 0X prefix (with one underscore allowed after it), then the digits.
\* [ok |-> FALSE] stands for ValueError.
PyInt16(text) ==
    LET t == Strip(text)
        signed == t # <<>> /\ t[1] \in {"+", "-"}
        u == IF signed THEN Tail(t) ELSE t
        prefixed == Len(u) >= 2 /\ u[1] = "0" /\ u[2] \in {"x", "X"}
        v == IF prefixed THEN SliceFrom(u, 2) ELSE u
        d == IF prefixed /\ v # <<>> /\ v[1] = "_" THEN Tail(v) ELSE v
    IN  IF DigitsOk(d)
        THEN [ok |-> TRUE,
              val |-> IF signed /\ t[1] = "-"
                      THEN 0 - DigitsValue(d, 0)
                      ELSE DigitsValue(d, 0)]
        ELSE [ok |-> FALSE]

----------------------------------------------------------------------------
(* hex_to_rgb and is_hexadecimal.                                          *)

HEX_COLOR_LENGTH == 6

is_hexadecimal(hex_string) == PyInt16(hex_string).ok

\* A slice bug: the green component read from the wrong pair.
hex_to_rgb_wrong_slice(hex_color) ==
    IF ~is_hexadecimal(hex_color) \/ Len(hex_color) # HEX_COLOR_LENGTH
    THEN Raise("TypeError", "not a hex color string")
    ELSE LET r == PyInt16(Slice(hex_color, 0, 2))
             g == PyInt16(Slice(hex_color, 1, 3))
             b == PyInt16(SliceFrom(hex_color, 4))
         IN  IF r.ok /\ g.ok /\ b.ok
             THEN Return(<<r.val, g.val, b.val>>)
             ELSE Raise("ValueError", "invalid literal for int() with base 16")

hex_to_rgb(hex_color) ==
    IF ~is_hexadecimal(hex_color) \/ Len(hex_color) # HEX_COLOR_LENGTH
    THEN Raise("TypeError", "not a hex color string")
    ELSE LET r == PyInt16(Slice(hex_color, 0, 2))
             g == PyInt16(Slice(hex_color, 2, 4))
             b == PyInt16(SliceFrom(hex_color, 4))
         IN  IF r.ok /\ g.ok /\ b.ok
             THEN Return(<<r.val, g.val, b.val>>)
             ELSE Raise("ValueError", "invalid literal for int() with base 16")

\* The characters and the lengths of the colour strings tried.
HexInputChars == {"0", "a", "F", "g", "+", "x", " "}
MaxHexInputLen == 6
HexInputs == SeqsUpTo(HexInputChars, MaxHexInputLen)

InitHex ==
    /\ pc = "call"
    /\ fn = "hex_to_rgb"
    /\ args \in [hex_color : HexInputs]
    /\ ret = Pending
    /\ heap = <<>>
    /\ heap0 = heap
    /\ console = <<>>
    /\ stack = <<>>
    /\ trace = <<>>

Call_hex_to_rgb ==
    /\ pc = "call"
    /\ fn = "hex_to_rgb"
    /\ ret' = hex_to_rgb(args.hex_color)
    /\ pc' = "done"
    /\ UNCHANGED <<fn, args, heap, heap0, console, stack, trace>>

SpecHex == InitHex /\ [][Call_hex_to_rgb]_vars

\* Exactly six hexadecimal digits.
IsHexColor(s) == Len(s) = 6 /\ \A i \in 1..Len(s) : s[i] \in HexDigitChars

\* The value of the two-digit pair starting at position i (1-based).
PairValue(s, i) == 16 * HexVal(s[i]) + HexVal(s[i + 1])

\* C1: every input that is not exactly six hexadecimal digits makes
\* hex_to_rgb raise TypeError "not a hex color string" and return no tuple.
HexRejectsEveryNonColor ==
    (pc = "done" /\ fn = "hex_to_rgb" /\ ~IsHexColor(args.hex_color))
        => ret = Raise("TypeError", "not a hex color string")

\* C2: for every string of exactly six hexadecimal digits, in either
\* letter case, hex_to_rgb returns (r, g, b), the values of the first,
\* second and third pair of digits in base 16, each in 0..255.
HexColorGivesPairValues ==
    (pc = "done" /\ fn = "hex_to_rgb" /\ IsHexColor(args.hex_color))
        => /\ ret.kind = "return"
           /\ ret.val = <<PairValue(args.hex_color, 1),
                          PairValue(args.hex_color, 3),
                          PairValue(args.hex_color, 5)>>
           /\ \A i \in 1..3 : ret.val[i] \in 0..255

\* A mixed-case colour has been converted.
HexColorConverted ==
    /\ pc = "done"
    /\ fn = "hex_to_rgb"
    /\ args.hex_color = <<"a", "F", "0", "0", "F", "a">>
    /\ ret = Return(<<175, 0, 250>>)

----------------------------------------------------------------------------
(* get_median_font_size.                                                   *)

\* Insert x into the ascending sequence s, after the elements equal to it.
RECURSIVE InsertSorted(_, _)
InsertSorted(s, x) ==
    IF s = <<>> THEN <<x>>
    ELSE IF x < Head(s) THEN <<x>> \o s
    ELSE <<Head(s)>> \o InsertSorted(Tail(s), x)

\* sorted(s): a new list, ascending and stable.
RECURSIVE Sorted(_)
Sorted(s) ==
    IF s = <<>> THEN <<>>
    ELSE InsertSorted(Sorted(SubSeq(s, 1, Len(s) - 1)), s[Len(s)])

\* The upper median instead of the lower one.
get_median_font_size_upper(h, font_sizes) ==
    IF h[font_sizes] = <<>>
    THEN [ret |-> ReturnNone, heap |-> h]
    ELSE LET ordered == Sorted(h[font_sizes])
         IN  [ret |-> Return(ordered[(Len(h[font_sizes]) \div 2) + 1]),
              heap |-> Append(h, ordered)]

\* font_sizes is a reference into the heap h; sorted() allocates the
\* ordered copy and leaves the list itself alone.
get_median_font_size(h, font_sizes) ==
    IF h[font_sizes] = <<>>
    THEN [ret |-> ReturnNone, heap |-> h]
    ELSE LET ordered == Sorted(h[font_sizes])
         IN  [ret |-> Return(ordered[((Len(h[font_sizes]) - 1) \div 2) + 1]),
              heap |-> Append(h, ordered)]

FontSizes == {8, 10, 12, 14, 16}
MaxFontSizes == 5

InitMedian ==
    /\ pc = "call"
    /\ fn = "get_median_font_size"
    /\ heap \in {<<l>> : l \in SeqsUpTo(FontSizes, MaxFontSizes)}
    /\ heap0 = heap
    /\ console = <<>>
    /\ stack = <<>>
    /\ trace = <<>>
    /\ args = [font_sizes |-> 1]
    /\ ret = Pending

Call_get_median_font_size ==
    /\ pc = "call"
    /\ fn = "get_median_font_size"
    /\ LET out == get_median_font_size(heap, args.font_sizes)
       IN  ret' = out.ret /\ heap' = out.heap
    /\ pc' = "done"
    /\ UNCHANGED <<fn, args, heap0, console, stack, trace>>

SpecMedian == InitMedian /\ [][Call_get_median_font_size]_vars

\* The number of elements of s that satisfy x < v, and x <= v.
CountBelow(s, v) == Cardinality({i \in 1..Len(s) : s[i] < v})
CountUpTo(s, v) == Cardinality({i \in 1..Len(s) : s[i] <= v})

\* v is the element at 0-based position k of the ascending ordering of s.
IsAtRank(s, v, k) ==
    /\ \E i \in 1..Len(s) : s[i] = v
    /\ CountBelow(s, v) <= k
    /\ k < CountUpTo(s, v)

\* C3: get_median_font_size returns None for an empty list; for n sizes it
\* returns the element at position (n-1) div 2 of the ascending ordering
\* (the middle value for odd n, the lower middle value for even n),
\* whatever the input order, and the input list is unchanged.
MedianIsLowerMiddle ==
    (pc = "done" /\ fn = "get_median_font_size")
        => LET sizes == heap0[args.font_sizes]
               n == Len(sizes)
           IN  /\ heap[args.font_sizes] = sizes
               /\ (n = 0) => ret = ReturnNone
               /\ (n > 0) => /\ ret.kind = "return"
                             /\ IsAtRank(sizes, ret.val, (n - 1) \div 2)

\* The lower median of an unsorted list of even length was returned.
MedianOfUnsortedEven ==
    /\ pc = "done"
    /\ fn = "get_median_font_size"
    /\ heap0[args.font_sizes] = <<16, 10, 14, 12>>
    /\ heap[args.font_sizes] = <<16, 10, 14, 12>>
    /\ ret = Return(12)

----------------------------------------------------------------------------
(* str.split, str.replace and dict lookup.                                 *)

\* The index of the first occurrence of the character c in s, 0 if none.
FirstIndex(s, c) ==
    IF \E i \in 1..Len(s) : s[i] = c
    THEN CHOOSE i \in 1..Len(s) : s[i] = c /\ \A j \in 1..(i - 1) : s[j] # c
    ELSE 0

\* s.split(c) for a one-character separator: the pieces between the
\* separators, empty pieces included; a string without c is one piece.
RECURSIVE Split(_, _)
Split(s, c) ==
    LET i == FirstIndex(s, c)
    IN  IF i = 0 THEN <<s>>
        ELSE <<SubSeq(s, 1, i - 1)>> \o Split(SubSeq(s, i + 1, Len(s)), c)

\* s.replace("", new): new before every character and at the end.
RECURSIVE ReplaceEmpty(_, _)
ReplaceEmpty(s, new) ==
    IF s = <<>> THEN new
    ELSE new \o <<Head(s)>> \o ReplaceEmpty(Tail(s), new)

\* s.replace(old, new): every non-overlapping occurrence, left to right.
RECURSIVE Replace(_, _, _)
Replace(s, old, new) ==
    IF old = <<>> THEN ReplaceEmpty(s, new)
    ELSE IF Len(s) < Len(old) THEN s
    ELSE IF StartsWith(s, old)
         THEN new \o Replace(SliceFrom(s, Len(old)), old, new)
    ELSE <<Head(s)>> \o Replace(Tail(s), old, new)

\* x in lst
InList(x, lst) == \E i \in 1..Len(lst) : lst[i] = x

\* key in d, and d[key] for a key that is present.
DictHas(d, key) == \E i \in 1..Len(d) : d[i][1] = key
DictGet(d, key) == d[CHOOSE i \in 1..Len(d) : d[i][1] = key][2]
DictKeys(d) == {d[i][1] : i \in 1..Len(d)}

----------------------------------------------------------------------------
(* convert_file_format.                                                    *)

Docx == <<"d", "o", "c", "x">>
Pdf == <<"p", "d", "f">>
Txt == <<"t", "x", "t">>
Pptx == <<"p", "p", "t", "x">>
Ppt == <<"p", "p", "t">>
Md == <<"m", "d">>

valid_extensions == <<Docx, Pdf, Txt, Pptx, Ppt, Md>>

valid_conversions ==
    << <<Docx, <<Pdf, Txt, Md>> >>,
       <<Pdf, <<Docx, Txt, Md>> >>,
       <<Txt, <<Docx, Pdf, Md>> >>,
       <<Pptx, <<Ppt, Pdf>> >>,
       <<Ppt, <<Pptx, Pdf>> >>,
       <<Md, <<Docx, Pdf, Txt>> >> >>

\* The table consulted without the allow-list test before it.
convert_file_format_unguarded(filename, target_format) ==
    LET parts == Split(filename, ".")
        current_format == parts[Len(parts)]
    IN  IF ~DictHas(valid_conversions, current_format)
        THEN Raise("KeyError", current_format)
        ELSE IF InList(target_format, DictGet(valid_conversions, current_format))
        THEN Return(Replace(filename, current_format, target_format))
        ELSE ReturnNone

convert_file_format(filename, target_format) ==
    LET parts == Split(filename, ".")
        current_format == parts[Len(parts)]
    IN  IF InList(current_format, valid_extensions)
        THEN IF ~DictHas(valid_conversions, current_format)
             THEN Raise("KeyError", current_format)
             ELSE IF InList(target_format,
                            DictGet(valid_conversions, current_format))
             THEN Return(Replace(filename, current_format, target_format))
             ELSE ReturnNone
        ELSE ReturnNone

\* File names are built from at most MaxNameParts of these pieces.
NameParts == {<<".">>, <<"a">>, Docx, Pdf, Txt, Pptx, Ppt, Md}
MaxNameParts == 3

RECURSIVE Concat(_)
Concat(pieces) ==
    IF pieces = <<>> THEN <<>> ELSE Head(pieces) \o Concat(Tail(pieces))

FileNames == {Concat(ps) : ps \in SeqsUpTo(NameParts, MaxNameParts)}
TargetFormats == {Docx, Pdf, Txt, Pptx, Ppt, Md, <<"j", "p", "g">>, <<>>}

InitConvert ==
    /\ pc = "call"
    /\ fn = "convert_file_format"
    /\ args \in [filename : FileNames, target_format : TargetFormats]
    /\ ret = Pending
    /\ heap = <<>>
    /\ heap0 = heap
    /\ console = <<>>
    /\ stack = <<>>
    /\ trace = <<>>

Call_convert_file_format ==
    /\ pc = "call"
    /\ fn = "convert_file_format"
    /\ ret' = convert_file_format(args.filename, args.target_format)
    /\ pc' = "done"
    /\ UNCHANGED <<fn, args, heap, heap0, console, stack, trace>>

SpecConvert == InitConvert /\ [][Call_convert_file_format]_vars

\* The position of the last '.' of s, 0 when s has none.
LastDot(s) ==
    IF \E i \in 1..Len(s) : s[i] = "."
    THEN CHOOSE i \in 1..Len(s) :
             s[i] = "." /\ \A j \in (i + 1)..Len(s) : s[j] # "."
    ELSE 0

\* The text after the last '.' (the whole name when there is no '.'),
\* and the text up to and including the last '.'.
Extension(s) == SubSeq(s, LastDot(s) + 1, Len(s))
Stem(s) == SubSeq(s, 1, LastDot(s))

\* The conversion list of the claim, as pairs <<source, target>>.
AllowedConversions ==
    {<<Docx, Pdf>>, <<Docx, Txt>>, <<Docx, Md>>,
     <<Pdf, Docx>>, <<Pdf, Txt>>, <<Pdf, Md>>,
     <<Txt, Docx>>, <<Txt, Pdf>>, <<Txt, Md>>,
     <<Pptx, Ppt>>, <<Pptx, Pdf>>,
     <<Ppt, Pptx>>, <<Ppt, Pdf>>,
     <<Md, Docx>>, <<Md, Pdf>>, <<Md, Txt>>}

\* C4: convert_file_format never raises, and returns None exactly when the
\* text after the last '.' of filename is not one of docx, pdf, txt, pptx,
\* ppt, md or target_format is not in the conversion list of that source
\* format; a target equal to the current format returns None.
ConvertNoneIffNotAllowed ==
    (pc = "done" /\ fn = "convert_file_format")
        => /\ ret.kind \in {"return", "none"}
           /\ (ret.kind = "none") <=>
                  (<<Extension(args.filename), args.target_format>>
                       \notin AllowedConversions)
           /\ (Extension(args.filename) = args.target_format)
                  => ret.kind = "none"

\* A conversion to the current format was refused.
ConvertSameFormatRefused ==
    /\ pc = "done"
    /\ fn = "convert_file_format"
    /\ args.filename = <<"a", ".", "p", "d", "f">>
    /\ args.target_format = Pdf
    /\ ret = ReturnNone

\* C5: whenever convert_file_format returns a name, it is the input
\* filename with only its final extension replaced by target_format:
\* everything up to and including the last '.' is unchanged, also when the
\* stem contains the extension text.
ConvertReplacesOnlyExtension ==
    (pc = "done" /\ fn = "convert_file_format" /\ ret.kind = "return")
        => ret.val = Stem(args.filename) \o args.target_format

----------------------------------------------------------------------------
(* count_nested_levels.                                                    *)

\* The values of a nested dict: None, or a dict given by its items.
PyNone == [type |-> "NoneType"]
PyDict(items) == [type |-> "dict", items |-> items]

\* The nested dicts with exactly n keys in all, over the keys in K; the
\* keys of one dict are distinct and keep their insertion order.
RECURSIVE ForestsOfSize(_, _)
ForestsOfSize(K, n) ==
    IF n = 0 THEN {<<>>}
    ELSE UNION {
           UNION {
             UNION {
               { <<<<k, v>>>> \o rest : k \in {x \in K : ~DictHas(rest, x)} }
               : rest \in ForestsOfSize(K, n - 1 - a) }
             : v \in IF a = 0
                     THEN {PyNone, PyDict(<<>>)}
                     ELSE {PyDict(f) : f \in ForestsOfSize(K, a)} }
           : a \in 0..(n - 1) }

NestedDicts(K, n) == UNION {ForestsOfSize(K, m) : m \in 0..n}

RECURSIVE count_nested_levels(_, _, _)
RECURSIVE count_nested_levels_from(_, _, _, _)

\* The for loop of count_nested_levels from its i-th key on.
count_nested_levels_from(nested_documents, i, target_document_id, level) ==
    IF i > Len(nested_documents) THEN 0 - 1
    ELSE LET key == nested_documents[i][1]
             value == nested_documents[i][2]
         IN  IF key = target_document_id THEN level
             ELSE LET level_found ==
                          IF value # PyNone
                          THEN count_nested_levels(value.items,
                                                   target_document_id,
                                                   level + 1)
                          ELSE 0 - 1
                  IN  IF value # PyNone /\ level_found >= 0
                      THEN level_found
                      ELSE count_nested_levels_from(nested_documents, i + 1,
                                                    target_document_id, level)

\* The subtree of a key searched only after all its siblings were tested.
count_nested_levels_breadth_first(nested_documents, target_document_id, level) ==
    IF \E i \in 1..Len(nested_documents) :
           nested_documents[i][1] = target_document_id
    THEN level
    ELSE count_nested_levels_from(nested_documents, 1,
                                  target_document_id, level)

count_nested_levels(nested_documents, target_document_id, level) ==
    count_nested_levels_from(nested_documents, 1, target_document_id, level)

DocumentIds == {1, 2, 3}
TargetIds == DocumentIds \cup {9}
MaxTreeKeys == 4

InitLevels ==
    /\ pc = "call"
    /\ fn = "count_nested_levels"
    /\ args \in [nested_documents : NestedDicts(DocumentIds, MaxTreeKeys),
                 target_document_id : TargetIds]
    /\ ret = Pending
    /\ heap = <<>>
    /\ heap0 = heap
    /\ console = <<>>
    /\ stack = <<>>
    /\ trace = <<>>

Call_count_nested_levels ==
    /\ pc = "call"
    /\ fn = "count_nested_levels"
    /\ ret' = Return(count_nested_levels(args.nested_documents,
                                         args.target_document_id, 1))
    /\ pc' = "done"
    /\ UNCHANGED <<fn, args, heap, heap0, console, stack, trace>>

SpecLevels == InitLevels /\ [][Call_count_nested_levels]_vars

\* The keys of a nested dict with their 1-based depths, in depth-first
\* order: a key, then the keys of its subtree, then its next sibling.
\* None-valued entries (file) have no subtree.
RECURSIVE DepthFirstKeys(_, _)
DepthFirstKeys(items, depth) ==
    IF items = <<>> THEN <<>>
    ELSE LET key == items[1][1]
             value == items[1][2]
         IN  <<[key |-> key, depth |-> depth, file |-> value = PyNone]>>
             \o (IF value = PyNone THEN <<>>
                 ELSE DepthFirstKeys(value.items, depth + 1))
             \o DepthFirstKeys(Tail(items), depth)

\* C6: count_nested_levels(tree, target) returns -1 exactly when target is
\* not a key anywhere in the nested tree (including the empty tree);
\* otherwise it returns the 1-based depth of the first occurrence of
\* target in depth-first order, None-valued entries not descended into.
LevelsIsDepthOfFirstMatch ==
    (pc = "done" /\ fn = "count_nested_levels")
        => LET order == DepthFirstKeys(args.nested_documents, 1)
               hits == {i \in 1..Len(order) :
                            order[i].key = args.target_document_id}
           IN  /\ ret.kind = "return"
               /\ (ret.val = 0 - 1) <=> (hits = {})
               /\ (hits # {}) =>
                      \E i \in hits : /\ \A j \in hits : i <= j
                                      /\ ret.val = order[i].depth

\* The target sits deeper in an earlier subtree than in a later sibling,
\* and the depth of the earlier, deeper occurrence was returned.
LevelsFoundDeeperFirst ==
    /\ pc = "done"
    /\ fn = "count_nested_levels"
    /\ args.nested_documents =
           << <<1, PyDict(<< <<2, PyDict(<< <<3, PyNone>> >>)>> >>)>>,
              <<3, PyNone>> >>
    /\ args.target_document_id = 3
    /\ ret = Return(3)

----------------------------------------------------------------------------
(* zipmap.                                                                 *)

\* d[key] = value on a dict: an existing key keeps its place.
DictSet(d, key, value) ==
    IF DictHas(d, key)
    THEN [i \in 1..Len(d) |->
              IF d[i][1] = key THEN <<key, value>> ELSE d[i]]
    ELSE Append(d, <<key, value>>)

\* a | b on dicts: the items of a, updated with those of b in order.
RECURSIVE DictUnion(_, _)
DictUnion(a, b) ==
    IF b = <<>> THEN a
    ELSE DictUnion(DictSet(a, b[1][1], b[1][2]), Tail(b))

\* The merge with its operands swapped: the first of two equal keys wins.
RECURSIVE zipmap_first_wins(_, _)
zipmap_first_wins(keys, values) ==
    IF keys = <<>> \/ values = <<>> THEN <<>>
    ELSE LET zipped == zipmap_first_wins(Tail(keys), Tail(values))
         IN  DictUnion(zipped, << <<keys[1], values[1]>> >>)

RECURSIVE zipmap(_, _)
zipmap(keys, values) ==
    IF keys = <<>> \/ values = <<>> THEN <<>>
    ELSE LET zipped == zipmap(Tail(keys), Tail(values))
         IN  DictUnion(<< <<keys[1], values[1]>> >>, zipped)

ZipKeys == {"a", "b", "c"}
ZipValues == {1, 2, 3}
MaxZipLen == 3

InitZipmap ==
    /\ pc = "call"
    /\ fn = "zipmap"
    /\ args \in [keys : SeqsUpTo(ZipKeys, MaxZipLen),
                 values : SeqsUpTo(ZipValues, MaxZipLen)]
    /\ ret = Pending
    /\ heap = <<>>
    /\ heap0 = heap
    /\ console = <<>>
    /\ stack = <<>>
    /\ trace = <<>>

Call_zipmap ==
    /\ pc = "call"
    /\ fn = "zipmap"
    /\ ret' = Return(zipmap(args.keys, args.values))
    /\ pc' = "done"
    /\ UNCHANGED <<fn, args, heap, heap0, console, stack, trace>>

SpecZipmap == InitZipmap /\ [][Call_zipmap]_vars

\* C7 as stated: zipmap returns the mapping that pairs keys[i] with
\* values[i] for every i below min(len(keys), len(values)), and nothing
\* else; an empty keys or values list gives the empty mapping.
ZipmapPairsEveryIndex ==
    (pc = "done" /\ fn = "zipmap")
        => LET n == Min(Len(args.keys), Len(args.values))
           IN  /\ ret.kind = "return"
               /\ \A i \in 1..n : /\ DictHas(ret.val, args.keys[i])
                                  /\ DictGet(ret.val, args.keys[i])
                                         = args.values[i]
               /\ DictKeys(ret.val) = {args.keys[i] : i \in 1..n}
               /\ (n = 0) => ret.val = <<>>

\* C7 (amended): zipmap returns, for all finite lists, the mapping whose
\* keys are keys[i] for i below min(len(keys), len(values)), each key
\* paired with values[i] at the last such i where it occurs; surplus keys
\* or values are dropped and an empty list gives the empty mapping.
ZipmapPairsLastOccurrence ==
    (pc = "done" /\ fn = "zipmap")
        => LET n == Min(Len(args.keys), Len(args.values))
           IN  /\ ret.kind = "return"
               /\ DictKeys(ret.val) = {args.keys[i] : i \in 1..n}
               /\ Len(ret.val) = Cardinality(DictKeys(ret.val))
               /\ \A i \in 1..n :
                      (\A j \in (i + 1)..n : args.keys[j] # args.keys[i])
                          => DictGet(ret.val, args.keys[i]) = args.values[i]
               /\ (n = 0) => ret.val = <<>>

\* A repeated key among more keys than values: the later value was kept
\* and the surplus key dropped.
ZipmapRepeatedKeyTruncated ==
    /\ pc = "done"
    /\ fn = "zipmap"
    /\ args.keys = <<"a", "a", "b">>
    /\ args.values = <<1, 2>>
    /\ ret = Return(<< <<"a", 2>> >>)

----------------------------------------------------------------------------
(* word_count and word_count_memo.                                         *)

\* s.split(): the maximal runs of non-whitespace characters, in order.
RECURSIVE SplitWhitespace(_)
SplitWhitespace(s) ==
    LET t == LStrip(s)
    IN  IF t = <<>> THEN <<>>
        ELSE LET stop == IF \E i \in 1..Len(t) : t[i] \in Whitespace
                         THEN CHOOSE i \in 1..Len(t) :
                                  /\ t[i] \in Whitespace
                                  /\ \A j \in 1..(i - 1) : t[j] \notin Whitespace
                         ELSE Len(t) + 1
             IN  <<SubSeq(t, 1, stop - 1)>>
                 \o SplitWhitespace(SubSeq(t, stop, Len(t)))

word_count(document) == Len(SplitWhitespace(document))

\* d.copy() / list.copy(): a new object holding the same items.  The
\* result is the heap with the copy allocated; its reference is Len.
Alloc(h, value) == Append(h, value)
NewRef(h) == Len(h) + 1

\* heap[ref] replaced by value.
Store(h, ref, value) == [h EXCEPT ![ref] = value]

\* The memo table aliased instead of copied.
word_count_memo_in_place(h, document, memos) ==
    LET new_memos == memos
    IN  IF DictHas(h[memos], document)
        THEN [ret |-> Return(<<DictGet(h[memos], document), new_memos>>),
              heap |-> h]
        ELSE LET count == word_count(document)
             IN  [ret |-> Return(<<count, new_memos>>),
                  heap |-> Store(h, new_memos,
                                 DictSet(h[new_memos], document, count))]

\* The new table started empty instead of as a copy.
word_count_memo_forgetting(h, document, memos) ==
    LET new_memos == NewRef(h)
        h1 == Alloc(h, <<>>)
    IN  IF DictHas(h1[memos], document)
        THEN [ret |-> Return(<<DictGet(h1[memos], document), new_memos>>),
              heap |-> h1]
        ELSE LET count == word_count(document)
             IN  [ret |-> Return(<<count, new_memos>>),
                  heap |-> Store(h1, new_memos,
                                 DictSet(h1[new_memos], document, count))]

\* memos is a reference into the heap h; the returned pair holds the
\* count and the reference of the new table.
word_count_memo(h, document, memos) ==
    LET new_memos == NewRef(h)
        h1 == Alloc(h, h[memos])
    IN  IF DictHas(h1[memos], document)
        THEN [ret |-> Return(<<DictGet(h1[memos], document), new_memos>>),
              heap |-> h1]
        ELSE LET count == word_count(document)
             IN  [ret |-> Return(<<count, new_memos>>),
                  heap |-> Store(h1, new_memos,
                                 DictSet(h1[new_memos], document, count))]

\* All dicts with at most n entries, keys in K and values in V.
DictsUpTo(K, V, n) ==
    {d \in SeqsUpTo(K \X V, n) :
         \A i, j \in 1..Len(d) : d[i][1] = d[j][1] => i = j}

MemoDocuments ==
    {<<>>, <<"a">>, <<" ", " ">>, <<"a", " ", "b">>,
     <<" ", "a", "b", " ", "\n", "c", " ">>}
MemoCounts == {0, 1, 2}
MaxMemos == 2

InitMemo ==
    /\ pc = "call"
    /\ fn = "word_count_memo"
    /\ heap \in {<<d>> : d \in DictsUpTo(MemoDocuments, MemoCounts, MaxMemos)}
    /\ heap0 = heap
    /\ console = <<>>
    /\ stack = <<>>
    /\ trace = <<>>
    /\ args \in [document : MemoDocuments, memos : {1}]
    /\ ret = Pending

Call_word_count_memo ==
    /\ pc = "call"
    /\ fn = "word_count_memo"
    /\ LET out == word_count_memo(heap, args.document, args.memos)
       IN  ret' = out.ret /\ heap' = out.heap
    /\ pc' = "done"
    /\ UNCHANGED <<fn, args, heap0, console, stack, trace>>

SpecMemo == InitMemo /\ [][Call_word_count_memo]_vars

\* The number of words of s: the positions where a non-whitespace
\* character follows the start of s or a whitespace character.
WordStarts(s) ==
    Cardinality({i \in 1..Len(s) :
                     /\ s[i] \notin Whitespace
                     /\ (i = 1 \/ s[i - 1] \in Whitespace)})

\* Every entry of dict a is in dict b with the same value.
EntriesKept(a, b) ==
    \A k \in DictKeys(a) : DictHas(b, k) /\ DictGet(b, k) = DictGet(a, k)

\* C8: word_count_memo(document, memos) never changes the table passed
\* in, on a hit or on a miss; the returned table contains every entry of
\* the input table unchanged, plus document -> word count when document
\* was absent.
MemoTableNotMutated ==
    (pc = "done" /\ fn = "word_count_memo")
        => LET passed == heap0[args.memos]
           IN  /\ ret.kind = "return"
               /\ heap[args.memos] = passed
               /\ EntriesKept(passed, heap[ret.val[2]])
               /\ ~DictHas(passed, args.document)
                      => /\ DictHas(heap[ret.val[2]], args.document)
                         /\ DictGet(heap[ret.val[2]], args.document)
                                = WordStarts(args.document)

\* A miss on a non-empty table: the count was added to the returned
\* table and the table passed in still lacks it.
MemoMissAddedToCopy ==
    /\ pc = "done"
    /\ fn = "word_count_memo"
    /\ args.document = <<"a", " ", "b">>
    /\ heap0[args.memos] = << <<<<"a">>, 1>> >>
    /\ heap[args.memos] = << <<<<"a">>, 1>> >>
    /\ heap[ret.val[2]] = << <<<<"a">>, 1>>, <<<<"a", " ", "b">>, 2>> >>

----------------------------------------------------------------------------
(* remove_format, add_custom_command, add_format, save_document.           *)
(* Their strings are only stored and compared, so they are atoms here; a   *)
(* callable is the name of the function it is.                             *)

remove_format(h, formats, old_format) ==
    LET formats_updated == NewRef(h)
        h1 == Alloc(h, h[formats])
    IN  [ret |-> Return(formats_updated),
         heap |-> Store(h1, formats_updated,
                        DictSet(h1[formats_updated], old_format, FALSE))]

add_custom_command(h, commands, new_command, function) ==
    LET new_commands == NewRef(h)
        h1 == Alloc(h, h[commands])
    IN  [ret |-> Return(new_commands),
         heap |-> Store(h1, new_commands,
                        DictSet(h1[new_commands], new_command, function))]

\* The list appended to in place and returned.
add_format_in_place(h, formats, fmt) ==
    LET new_formats == formats
    IN  [ret |-> Return(new_formats),
         heap |-> Store(h, new_formats, Append(h[new_formats], fmt))]

add_format(h, formats, fmt) ==
    LET new_formats == NewRef(h)
        h1 == Alloc(h, h[formats])
    IN  [ret |-> Return(new_formats),
         heap |-> Store(h1, new_formats, Append(h1[new_formats], fmt))]

\* A file name already saved keeps its first document.
save_document_first_kept(h, docs, file_name, doc) ==
    LET new_docs == NewRef(h)
        h1 == Alloc(h, h[docs])
    IN  [ret |-> Return(new_docs),
         heap |-> IF DictHas(h1[new_docs], file_name) THEN h1
                  ELSE Store(h1, new_docs,
                             DictSet(h1[new_docs], file_name, doc))]

save_document(h, docs, file_name, doc) ==
    LET new_docs == NewRef(h)
        h1 == Alloc(h, h[docs])
    IN  [ret |-> Return(new_docs),
         heap |-> Store(h1, new_docs, DictSet(h1[new_docs], file_name, doc))]

FormatNames == {"docx", "pdf", "txt"}
FileNameAtoms == {"a.txt", "b.md"}
DocumentAtoms == {"draft", "final"}
CommandNames == {"save", "open"}
Callables == {"word_count", "add_line_break"}
MaxEntries == 2

InitUpdate ==
    /\ pc = "call"
    /\ ret = Pending
    /\ \/ /\ fn = "remove_format"
          /\ heap \in {<<d>> : d \in DictsUpTo(FormatNames, BOOLEAN, MaxEntries)}
          /\ args \in [formats : {1}, old_format : FormatNames]
       \/ /\ fn = "add_custom_command"
          /\ heap \in {<<d>> : d \in DictsUpTo(CommandNames, Callables, MaxEntries)}
          /\ args \in [commands : {1}, new_command : CommandNames,
                       function : Callables]
       \/ /\ fn = "add_format"
          /\ heap \in {<<l>> : l \in SeqsUpTo(FormatNames, MaxEntries)}
          /\ args \in [formats : {1}, fmt : FormatNames]
       \/ /\ fn = "save_document"
          /\ heap \in {<<d>> : d \in DictsUpTo(FileNameAtoms, DocumentAtoms, MaxEntries)}
          /\ args \in [docs : {1}, file_name : FileNameAtoms,
                       doc : DocumentAtoms]
    /\ heap0 = heap
    /\ console = <<>>
    /\ stack = <<>>
    /\ trace = <<>>

Call_remove_format ==
    /\ pc = "call"
    /\ fn = "remove_format"
    /\ LET out == remove_format(heap, args.formats, args.old_format)
       IN  ret' = out.ret /\ heap' = out.heap
    /\ pc' = "done"
    /\ UNCHANGED <<fn, args, heap0, console, stack, trace>>

Call_add_custom_command ==
    /\ pc = "call"
    /\ fn = "add_custom_command"
    /\ LET out == add_custom_command(heap, args.commands, args.new_command,
                                     args.function)
       IN  ret' = out.ret /\ heap' = out.heap
    /\ pc' = "done"
    /\ UNCHANGED <<fn, args, heap0, console, stack, trace>>

Call_add_format ==
    /\ pc = "call"
    /\ fn = "add_format"
    /\ LET out == add_format(heap, args.formats, args.fmt)
       IN  ret' = out.ret /\ heap' = out.heap
    /\ pc' = "done"
    /\ UNCHANGED <<fn, args, heap0, console, stack, trace>>

Call_save_document ==
    /\ pc = "call"
    /\ fn = "save_document"
    /\ LET out == save_document(heap, args.docs, args.file_name, args.doc)
       IN  ret' = out.ret /\ heap' = out.heap
    /\ pc' = "done"
    /\ UNCHANGED <<fn, args, heap0, console, stack, trace>>

NextUpdate ==
    \/ Call_remove_format
    \/ Call_add_custom_command
    \/ Call_add_format
    \/ Call_save_document

SpecUpdate == InitUpdate /\ [][NextUpdate]_vars

\* Dict b is dict a with key bound to value: key has that value, every
\* other key of a keeps its value, and b has no further key.
IsUpdateOf(b, a, key, value) ==
    /\ DictKeys(b) = DictKeys(a) \cup {key}
    /\ Len(b) = Cardinality(DictKeys(b))
    /\ DictGet(b, key) = value
    /\ \A k \in DictKeys(a) \ {key} : DictGet(b, k) = DictGet(a, k)

\* C9: add_format, remove_format, save_document and add_custom_command
\* never modify the list or mapping passed to them: after the call the
\* argument equals its value before the call, and the result is a
\* separate value holding the update (appended format, flag set to False,
\* document stored, command bound).
UpdatesLeaveArgumentAlone ==
    /\ (pc = "done" /\ fn = "add_format")
           => /\ heap[args.formats] = heap0[args.formats]
              /\ ret.val # args.formats
              /\ heap[ret.val] = heap0[args.formats] \o <<args.fmt>>
    /\ (pc = "done" /\ fn = "remove_format")
           => /\ heap[args.formats] = heap0[args.formats]
              /\ ret.val # args.formats
              /\ IsUpdateOf(heap[ret.val], heap0[args.formats],
                            args.old_format, FALSE)
    /\ (pc = "done" /\ fn = "save_document")
           => /\ heap[args.docs] = heap0[args.docs]
              /\ ret.val # args.docs
              /\ IsUpdateOf(heap[ret.val], heap0[args.docs],
                            args.file_name, args.doc)
    /\ (pc = "done" /\ fn = "add_custom_command")
           => /\ heap[args.commands] = heap0[args.commands]
              /\ ret.val # args.commands
              /\ IsUpdateOf(heap[ret.val], heap0[args.commands],
                            args.new_command, args.function)

\* A format was appended: the list passed in is as it was and the
\* returned list is another object, one element longer.
FormatAppendedToCopy ==
    /\ pc = "done"
    /\ fn = "add_format"
    /\ args.fmt = "txt"
    /\ heap0[args.formats] = <<"docx", "pdf">>
    /\ heap[args.formats] = <<"docx", "pdf">>
    /\ ret.val # args.formats
    /\ heap[ret.val] = <<"docx", "pdf", "txt">>

----------------------------------------------------------------------------
(* convert_case, with str.upper, str.lower and str.title on ASCII text.    *)

LowerLetters == <<"a", "b", "c", "d", "e", "f", "g", "h", "i", "j", "k", "l",
                  "m", "n", "o", "p", "q", "r", "s", "t", "u", "v", "w", "x",
                  "y", "z">>
UpperLetters == <<"A", "B", "C", "D", "E", "F", "G", "H", "I", "J", "K", "L",
                  "M", "N", "O", "P", "Q", "R", "S", "T", "U", "V", "W", "X",
                  "Y", "Z">>
LowerSet == {LowerLetters[i] : i \in 1..Len(LowerLetters)}
UpperSet == {UpperLetters[i] : i \in 1..Len(UpperLetters)}

\* The cased characters.
IsCased(c) == c \in LowerSet \cup UpperSet

ToUpper(c) ==
    IF c \in LowerSet
    THEN UpperLetters[CHOOSE i \in 1..Len(LowerLetters) : LowerLetters[i] = c]
    ELSE c

ToLower(c) ==
    IF c \in UpperSet
    THEN LowerLetters[CHOOSE i \in 1..Len(UpperLetters) : UpperLetters[i] = c]
    ELSE c

\* text.upper() and text.lower()
Upper(text) == [i \in 1..Len(text) |-> ToUpper(text[i])]
Lower(text) == [i \in 1..Len(text) |-> ToLower(text[i])]

\* text.title(): a cased character is upper-cased when the character
\* before it is not cased (or there is none) and lower-cased otherwise.
RECURSIVE TitleFrom(_, _)
TitleFrom(text, previous_is_cased) ==
    IF text = <<>> THEN <<>>
    ELSE IF IsCased(Head(text))
    THEN <<IF previous_is_cased THEN ToLower(Head(text))
                                ELSE ToUpper(Head(text))>>
         \o TitleFrom(Tail(text), TRUE)
    ELSE <<Head(text)>> \o TitleFrom(Tail(text), FALSE)

Title(text) == TitleFrom(text, FALSE)

\* An exception whose message ends with a value of the call.
RaiseWith(exc, msg, value) ==
    [kind |-> "raise", exc |-> exc, msg |-> msg, value |-> value]

\* The format tested before the emptiness of the arguments.
convert_case_format_first(text, target_format) ==
    IF target_format = "uppercase" THEN Return(Upper(text))
    ELSE IF target_format = "lowercase" THEN Return(Lower(text))
    ELSE IF target_format = "titlecase" THEN Return(Title(text))
    ELSE IF text = <<>> \/ target_format = ""
    THEN Raise("ValueError", "no text or target format provided")
    ELSE RaiseWith("ValueError", "unsupported format: ", target_format)

\* text is a sequence of characters, target_format an atom.
convert_case(text, target_format) ==
    IF text = <<>> \/ target_format = ""
    THEN Raise("ValueError", "no text or target format provided")
    ELSE IF target_format = "uppercase" THEN Return(Upper(text))
    ELSE IF target_format = "lowercase" THEN Return(Lower(text))
    ELSE IF target_format = "titlecase" THEN Return(Title(text))
    ELSE RaiseWith("ValueError", "unsupported format: ", target_format)

CaseChars == {"a", "B", "z", " ", "1"}
MaxTextLen == 3
CaseFormats ==
    {"uppercase", "lowercase", "titlecase", "snakecase", "UPPERCASE", ""}

InitCase ==
    /\ pc = "call"
    /\ fn = "convert_case"
    /\ args \in [text : SeqsUpTo(CaseChars, MaxTextLen),
                 target_format : CaseFormats]
    /\ ret = Pending
    /\ heap = <<>>
    /\ heap0 = heap
    /\ console = <<>>
    /\ stack = <<>>
    /\ trace = <<>>

Call_convert_case ==
    /\ pc = "call"
    /\ fn = "convert_case"
    /\ ret' = convert_case(args.text, args.target_format)
    /\ pc' = "done"
    /\ UNCHANGED <<fn, args, heap, heap0, console, stack, trace>>

SpecCase == InitCase /\ [][Call_convert_case]_vars

\* a and b have the same characters up to letter case.
SameUpToCase(a, b) ==
    /\ Len(a) = Len(b)
    /\ \A i \in 1..Len(a) :
           \/ a[i] = b[i]
           \/ /\ IsCased(a[i])
              /\ IsCased(b[i])
              /\ \E k \in 1..Len(LowerLetters) :
                     {a[i], b[i]} = {LowerLetters[k], UpperLetters[k]}

\* s in upper case, in lower case, and in title case (a letter is a
\* capital exactly when it starts a run of letters).
IsUpperCase(s) == \A i \in 1..Len(s) : s[i] \notin LowerSet
IsLowerCase(s) == \A i \in 1..Len(s) : s[i] \notin UpperSet
IsTitleCase(s) ==
    \A i \in 1..Len(s) :
        IsCased(s[i]) =>
            ((s[i] \in UpperSet) <=> (i = 1 \/ ~IsCased(s[i - 1])))

\* C10: convert_case raises "no text or target format provided" whenever
\* text or target_format is empty (first, also for an unsupported
\* format), raises "unsupported format" for any other non-empty
\* target_format than uppercase, lowercase, titlecase, and otherwise
\* returns the text in the requested case.
ConvertCaseOutcomes ==
    (pc = "done" /\ fn = "convert_case")
        => LET empty == args.text = <<>> \/ args.target_format = ""
               supported ==
                   args.target_format \in {"uppercase", "lowercase", "titlecase"}
           IN  /\ empty
                   => ret = Raise("ValueError",
                                  "no text or target format provided")
               /\ (~empty /\ ~supported)
                   => /\ ret.kind = "raise"
                      /\ ret.exc = "ValueError"
                      /\ ret.msg = "unsupported format: "
               /\ (~empty /\ supported)
                   => /\ ret.kind = "return"
                      /\ SameUpToCase(ret.val, args.text)
                      /\ (args.target_format = "uppercase")
                             => IsUpperCase(ret.val)
                      /\ (args.target_format = "lowercase")
                             => IsLowerCase(ret.val)
                      /\ (args.target_format = "titlecase")
                             => IsTitleCase(ret.val)

\* An empty text with a supported format was refused as "no text".
ConvertCaseEmptyTextRefused ==
    /\ pc = "done"
    /\ fn = "convert_case"
    /\ args.text = <<>>
    /\ args.target_format = "titlecase"
    /\ ret = Raise("ValueError", "no text or target format provided")

----------------------------------------------------------------------------
(* The document functions: center_title, add_border,                       *)
(* remove_invalid_lines, change_bullet_style.  A document is a sequence of *)
(* characters, its lines separated by "\n".                                *)

\* sep.join(lines) for a one-character separator.
RECURSIVE Join(_, _)
Join(lines, sep) ==
    IF lines = <<>> THEN <<>>
    ELSE IF Len(lines) = 1 THEN lines[1]
    ELSE lines[1] \o <<sep>> \o Join(Tail(lines), sep)

\* s.center(width) for an even width: the padding is split with the
\* smaller half on the left; a string of width or more is unchanged.
Center(s, width) ==
    IF Len(s) >= width THEN s
    ELSE LET marg == width - Len(s)
             left == marg \div 2
         IN  [i \in 1..left |-> " "] \o s \o [i \in 1..(marg - left) |-> " "]

center_title(document) ==
    LET width == 40
        title == Split(document, "\n")[1]
        centered_title == Center(title, width)
    IN  Replace(document, title, centered_title)

add_border(document) ==
    LET title == Split(document, "\n")[1]
        border == [i \in 1..Len(title) |-> "*"]
    IN  Replace(document, title, title \o <<"\n">> \o border)

\* Every line that holds a dash dropped, not only those starting with one.
remove_invalid_lines_any_dash(document) ==
    LET lines == Split(document, "\n")
    IN  Join(SelectSeq(lines, LAMBDA line : ~InList("-", line)), "\n")

remove_invalid_lines(document) ==
    LET lines == Split(document, "\n")
    IN  Join(SelectSeq(lines, LAMBDA line : ~StartsWith(line, <<"-">>)), "\n")

\* Every dash of the line replaced, not only a leading one.
convert_line_every_dash(line) == Replace(line, <<"-">>, <<"*">>)

convert_line(line) ==
    LET old_bullet == "-"
        new_bullet == "*"
    IN  IF Len(line) > 0 /\ line[1] = old_bullet
        THEN <<new_bullet>> \o SliceFrom(line, 1)
        ELSE line

change_bullet_style(document) ==
    LET lines == Split(document, "\n")
    IN  Join([i \in 1..Len(lines) |-> convert_line(lines[i])], "\n")

\* Documents of at most MaxDocLines lines.
DocLines ==
    {<<>>, <<"H", "i">>, <<"H", "i", " ", "a", "l", "l">>,
     <<"-", "a">>, <<"a", "-", "b">>, <<"-", "-">>}
MaxDocLines == 3
Documents == {Join(ls, "\n") : ls \in SeqsUpTo(DocLines, MaxDocLines) \ {<<>>}}

InitDocument ==
    /\ pc = "call"
    /\ fn \in {"center_title", "add_border", "remove_invalid_lines",
               "change_bullet_style"}
    /\ args \in [document : Documents]
    /\ ret = Pending
    /\ heap = <<>>
    /\ heap0 = heap
    /\ console = <<>>
    /\ stack = <<>>
    /\ trace = <<>>

Call_center_title ==
    /\ pc = "call"
    /\ fn = "center_title"
    /\ ret' = Return(center_title(args.document))
    /\ pc' = "done"
    /\ UNCHANGED <<fn, args, heap, heap0, console, stack, trace>>

Call_add_border ==
    /\ pc = "call"
    /\ fn = "add_border"
    /\ ret' = Return(add_border(args.document))
    /\ pc' = "done"
    /\ UNCHANGED <<fn, args, heap, heap0, console, stack, trace>>

Call_remove_invalid_lines ==
    /\ pc = "call"
    /\ fn = "remove_invalid_lines"
    /\ ret' = Return(remove_invalid_lines(args.document))
    /\ pc' = "done"
    /\ UNCHANGED <<fn, args, heap, heap0, console, stack, trace>>

Call_change_bullet_style ==
    /\ pc = "call"
    /\ fn = "change_bullet_style"
    /\ ret' = Return(change_bullet_style(args.document))
    /\ pc' = "done"
    /\ UNCHANGED <<fn, args, heap, heap0, console, stack, trace>>

NextDocument ==
    \/ Call_center_title
    \/ Call_add_border
    \/ Call_remove_invalid_lines
    \/ Call_change_bullet_style

SpecDocument == InitDocument /\ [][NextDocument]_vars

\* The lines of a document, and its lines after the first.
LinesOf(document) == Split(document, "\n")
BodyOf(document) == Tail(LinesOf(document))

\* line is title centered in a width of 40: the title between spaces, the
\* two sides differing by at most one, 40 wide unless the title is wider.
IsCentered(line, title) ==
    \E left \in 0..40 :
        /\ Len(line) >= Len(title) + left
        /\ SubSeq(line, left + 1, left + Len(title)) = title
        /\ \A i \in 1..Len(line) :
               (i <= left \/ i > left + Len(title)) => line[i] = " "
        /\ Len(line) = (IF Len(title) >= 40 THEN Len(title) ELSE 40)
        /\ (Len(line) - Len(title) - left) - left \in {0 - 1, 0, 1}

\* C11: center_title changes only the first line of the document,
\* replacing it by the title centered in a width of 40; every body line
\* after the first is preserved unchanged and in order, for every document.
CenterTitleKeepsBody ==
    (pc = "done" /\ fn = "center_title")
        => /\ ret.kind = "return"
           /\ IsCentered(LinesOf(ret.val)[1], LinesOf(args.document)[1])
           /\ BodyOf(ret.val) = BodyOf(args.document)

\* C12: add_border returns the document with exactly one line inserted
\* directly below the title: the first line is still the title, the second
\* line is asterisks of the title's length, the rest is the original body.
AddBorderInsertsOneLine ==
    (pc = "done" /\ fn = "add_border")
        => LET title == LinesOf(args.document)[1]
           IN  /\ ret.kind = "return"
               /\ LinesOf(ret.val) =
                      <<title, [i \in 1..Len(title) |-> "*"]>>
                          \o BodyOf(args.document)

\* C15: remove_invalid_lines returns the newline-joined subsequence of the
\* document's lines that do not start with '-', in their original order;
\* lines with a dash elsewhere, empty lines and all other lines are kept
\* unchanged, and a document whose lines all start with '-' yields the
\* empty string.
RemoveInvalidKeepsOtherLines ==
    (pc = "done" /\ fn = "remove_invalid_lines")
        => LET lines == LinesOf(args.document)
               keep(l) == l = <<>> \/ l[1] # "-"
           IN  /\ ret.kind = "return"
               /\ ret.val = Join(SelectSeq(lines, keep), "\n")
               /\ (\A i \in 1..Len(lines) : ~keep(lines[i])) => ret.val = <<>>
               /\ (\A i \in 1..Len(lines) : keep(lines[i]))
                      => ret.val = args.document

\* A bullet line was dropped between a line with an inner dash and an
\* empty line, which were kept.
RemoveInvalidDroppedBullet ==
    /\ pc = "done"
    /\ fn = "remove_invalid_lines"
    /\ args.document = <<"a", "-", "b", "\n", "-", "a", "\n">>
    /\ ret = Return(<<"a", "-", "b", "\n">>)

\* C16: change_bullet_style keeps the number and order of lines and
\* changes a line only when its first character is '-', in which case
\* exactly that character becomes '*'; every other character is
\* unchanged, so applying it twice gives the same as applying it once.
BulletStyleChangesLeadingDash ==
    (pc = "done" /\ fn = "change_bullet_style")
        => LET before == LinesOf(args.document)
               after == LinesOf(ret.val)
           IN  /\ ret.kind = "return"
               /\ Len(after) = Len(before)
               /\ \A i \in 1..Len(before) :
                      /\ Len(after[i]) = Len(before[i])
                      /\ \A j \in 1..Len(before[i]) :
                             after[i][j] =
                                 (IF j = 1 /\ before[i][j] = "-"
                                  THEN "*" ELSE before[i][j])
               /\ change_bullet_style(ret.val) = ret.val

\* A bullet with a second dash was restyled next to a line with an inner
\* dash: only the leading dash changed.
BulletStyleRestyled ==
    /\ pc = "done"
    /\ fn = "change_bullet_style"
    /\ args.document = <<"-", "-", "\n", "a", "-", "b">>
    /\ ret = Return(<<"*", "-", "\n", "a", "-", "b">>)


----------------------------------------------------------------------------
(* The functions on tuples, lists and nested directories: add_prefix,      *)
(* file_type_getter, join_first_sentences, pair_document_with_format,      *)
(* sort_dates, list_files.  Their pending calls are drawn by InitSequence  *)
(* and they run under the specification of the whole library, Spec.        *)

\* str(n) for n >= 0: the decimal digits of n, without leading zeros.
RECURSIVE Decimal(_)
Decimal(n) ==
    IF n < 10 THEN <<LowerHex[n + 1]>>
    ELSE Decimal(n \div 10) \o <<LowerHex[(n % 10) + 1]>>

\* The prefix numbered from one instead of from the length.
add_prefix_one_based(document, documents) ==
    LET prefix == Decimal(Len(documents) + 1) \o <<".", " ">>
        new_doc == prefix \o document
    IN  Append(documents, new_doc)

\* documents is a tuple: the result is a new tuple.
add_prefix(document, documents) ==
    LET prefix == Decimal(Len(documents)) \o <<".", " ">>
        new_doc == prefix \o document
    IN  Append(documents, new_doc)

\* Only the first extension of each pair registered.
file_type_getter_first_extension(file_extension_tuples) ==
    DictUnion(<<>>,
              Concat([i \in 1..Len(file_extension_tuples) |->
                  IF file_extension_tuples[i][2] = <<>> THEN <<>>
                  ELSE << <<file_extension_tuples[i][2][1],
                            file_extension_tuples[i][1]>> >>]))

\* The dict the returned lambda closes over: every extension of every
\* pair bound to the pair's type name, a later binding replacing an
\* earlier one.
file_type_getter(file_extension_tuples) ==
    DictUnion(<<>>,
              Concat([i \in 1..Len(file_extension_tuples) |->
                  [j \in 1..Len(file_extension_tuples[i][2]) |->
                      <<file_extension_tuples[i][2][j],
                        file_extension_tuples[i][1]>>]]))

join(doc_so_far, sentence) == doc_so_far \o <<".", " ">> \o sentence

\* reduce(join, sentences[:n]) has no initial value: it raises TypeError
\* on an empty slice.
join_first_sentences(sentences, n) ==
    LET RECURSIVE Reduce(_, _)
        Reduce(acc, rest) ==
            IF rest = <<>> THEN acc
            ELSE Reduce(join(acc, Head(rest)), Tail(rest))
        first == Slice(sentences, 0, n)
    IN  IF n = 0 THEN Return(<<>>)
        ELSE IF first = <<>>
        THEN Raise("TypeError",
                   "reduce() of empty iterable with no initial value")
        ELSE Return(Reduce(Head(first), Tail(first)) \o <<".">>)

\* zip without strict=True: the longer list is cut to the shorter one.
pair_document_with_format_truncating(doc_names, doc_formats) ==
    LET extensions == <<Docx, Pdf, Txt, Pptx, Ppt, Md>>
        n == Min(Len(doc_names), Len(doc_formats))
        zipped == [i \in 1..n |-> <<doc_names[i], doc_formats[i]>>]
    IN  Return(SelectSeq(zipped, LAMBDA valid_tuple :
                                     InList(valid_tuple[2], extensions)))

\* zip(..., strict=True) raises ValueError when one list ends before the
\* other; list() consumes it before filter sees a pair.
pair_document_with_format(doc_names, doc_formats) ==
    LET extensions == <<Docx, Pdf, Txt, Pptx, Ppt, Md>>
        zipped == [i \in 1..Len(doc_names) |-> <<doc_names[i], doc_formats[i]>>]
    IN  IF Len(doc_formats) < Len(doc_names)
        THEN Raise("ValueError", "zip() argument 2 is shorter than argument 1")
        ELSE IF Len(doc_formats) > Len(doc_names)
        THEN Raise("ValueError", "zip() argument 2 is longer than argument 1")
        ELSE Return(SelectSeq(zipped, LAMBDA valid_tuple :
                                          InList(valid_tuple[2], extensions)))

\* f"{date[6:]}-{date[:5]}"
format_date(date) == SliceFrom(date, 6) \o <<"-">> \o Slice(date, 0, 5)

\* The dates compared as they are written, month first.
sort_dates_by_text(h, dates) ==
    LET Ord(c) == CHOOSE i \in 1..11 : (<<"-">> \o SubSeq(LowerHex, 1, 10))[i] = c
        RECURSIVE Less(_, _)
        Less(a, b) ==
            IF b = <<>> THEN FALSE
            ELSE IF a = <<>> THEN TRUE
            ELSE IF Head(a) = Head(b) THEN Less(Tail(a), Tail(b))
            ELSE Ord(Head(a)) < Ord(Head(b))
        RECURSIVE Insert(_, _)
        Insert(sorted, date) ==
            IF sorted # <<>> /\ Less(date, sorted[Len(sorted)])
            THEN Append(Insert(SubSeq(sorted, 1, Len(sorted) - 1), date),
                        sorted[Len(sorted)])
            ELSE Append(sorted, date)
        RECURSIVE SortedFrom(_, _)
        SortedFrom(sorted, rest) ==
            IF rest = <<>> THEN sorted
            ELSE SortedFrom(Insert(sorted, Head(rest)), Tail(rest))
    IN  [ret |-> Return(SortedFrom(<<>>, h[dates])), heap |-> h]

\* sorted(dates, key=format_date): a new list, stable, the keys compared
\* as strings ("-" sorts before the digits); the list at dates is left as
\* it is.
sort_dates(h, dates) ==
    LET Ord(c) == CHOOSE i \in 1..11 : (<<"-">> \o SubSeq(LowerHex, 1, 10))[i] = c
        RECURSIVE Less(_, _)
        Less(a, b) ==
            IF b = <<>> THEN FALSE
            ELSE IF a = <<>> THEN TRUE
            ELSE IF Head(a) = Head(b) THEN Less(Tail(a), Tail(b))
            ELSE Ord(Head(a)) < Ord(Head(b))
        RECURSIVE Insert(_, _)
        Insert(sorted, date) ==
            IF sorted # <<>>
               /\ Less(format_date(date), format_date(sorted[Len(sorted)]))
            THEN Append(Insert(SubSeq(sorted, 1, Len(sorted) - 1), date),
                        sorted[Len(sorted)])
            ELSE Append(sorted, date)
        RECURSIVE SortedFrom(_, _)
        SortedFrom(sorted, rest) ==
            IF rest = <<>> THEN sorted
            ELSE SortedFrom(Insert(sorted, Head(rest)), Tail(rest))
    IN  [ret |-> Return(SortedFrom(<<>>, h[dates])), heap |-> h]

\* A subdirectory without entries listed as if it were a file.
RECURSIVE list_files_empty_directory_listed(_, _)
list_files_empty_directory_listed(parent_directory, current_filepath) ==
    IF parent_directory = <<>> THEN <<>>
    ELSE LET key == parent_directory[1][1]
             value == parent_directory[1][2]
             new_filepath == current_filepath \o <<"/">> \o key
         IN  (IF value = PyNone \/ value = PyDict(<<>>) THEN <<new_filepath>>
              ELSE list_files_empty_directory_listed(value.items, new_filepath))
             \o list_files_empty_directory_listed(Tail(parent_directory),
                                                  current_filepath)

\* The for loop over the keys in insertion order: the first key, then the
\* remaining keys.
RECURSIVE list_files(_, _)
list_files(parent_directory, current_filepath) ==
    IF parent_directory = <<>> THEN <<>>
    ELSE LET key == parent_directory[1][1]
             value == parent_directory[1][2]
             new_filepath == current_filepath \o <<"/">> \o key
         IN  (IF value = PyNone THEN <<new_filepath>>
              ELSE list_files(value.items, new_filepath))
             \o list_files(Tail(parent_directory), current_filepath)

\* The longest tuple threaded through add_prefix, the most pairs given to
\* file_type_getter, the longest list of sentences, of names and formats,
\* and of dates.
MaxPrefixed == 11
MaxPairs == 2
MaxSentences == 3
MaxPaired == 2
MaxDates == 3

InitSequence ==
    /\ pc = "call"
    /\ ret = Pending
    /\ \/ /\ fn = "add_prefix"
          /\ args \in [document : {<<>>, <<"a">>},
                       documents : {<<>>, << <<"a">> >>,
                                    << <<"1", ".", " ">>, <<>> >>}]
          /\ heap = <<>>
       \/ /\ fn = "file_type_getter"
          /\ args \in [file_extension_tuples :
                           SeqsUpTo({"Document", "Image"}
                                        \X SeqsUpTo({"pdf", "PDF", "png"}, 2),
                                    MaxPairs),
                       found_type : {"pdf", "PDF", "png", "xyz", ""}]
          /\ heap = <<>>
       \/ /\ fn = "join_first_sentences"
          /\ args \in [sentences : SeqsUpTo({<<"A">>, <<"B", "c">>, <<>>},
                                            MaxSentences),
                       n : 0..(MaxSentences + 1)]
          /\ heap = <<>>
       \/ /\ fn = "pair_document_with_format"
          /\ args \in [doc_names : SeqsUpTo({"a", "b"}, MaxPaired),
                       doc_formats :
                           SeqsUpTo({Docx, Pdf, Txt, Pptx, Ppt, Md,
                                     <<"P", "D", "F">>, <<"x">>, <<>>},
                                    MaxPaired)]
          /\ heap = <<>>
       \/ /\ fn = "sort_dates"
          /\ args = [dates |-> 1]
          /\ LET two(n) == IF n < 10 THEN <<"0">> \o Decimal(n) ELSE Decimal(n)
                 date(m, d, y) ==
                     two(m) \o <<"-">> \o two(d) \o <<"-">> \o Decimal(y)
             IN  heap \in {<<l>> : l \in SeqsUpTo({date(m, d, y) :
                                                      m \in {1, 12},
                                                      d \in {2, 15},
                                                      y \in {1999, 2024}},
                                                  MaxDates)}
       \/ /\ fn = "list_files"
          /\ args \in [parent_directory :
                           NestedDicts({<<"a">>, <<"b", ".", "c">>}, MaxTreeKeys),
                       current_filepath : {<<>>, <<"/", "r">>}]
          /\ heap = <<>>
    /\ heap0 = heap
    /\ console = <<>>
    /\ stack = <<>>
    /\ trace = <<>>

Call_add_prefix ==
    /\ pc = "call"
    /\ fn = "add_prefix"
    /\ ret' = Return(add_prefix(args.document, args.documents))
    /\ pc' = "done"
    /\ UNCHANGED <<fn, args, heap, heap0, console, stack, trace>>

\* The caller passes the returned tuple to the next call.
Thread_add_prefix ==
    /\ pc = "done"
    /\ fn = "add_prefix"
    /\ Len(ret.val) < MaxPrefixed
    /\ args' \in [document : {<<>>, <<"a">>}, documents : {ret.val}]
    /\ ret' = Pending
    /\ pc' = "call"
    /\ UNCHANGED <<fn, heap, heap0, console, stack, trace>>

\* file_type_getter returns the lambda, which holds ext_type_dict.
Call_file_type_getter ==
    /\ pc = "call"
    /\ fn = "file_type_getter"
    /\ ret' = Return([ext_type_dict |->
                          file_type_getter(args.file_extension_tuples)])
    /\ pc' = "returned"
    /\ UNCHANGED <<fn, args, heap, heap0, console, stack, trace>>

\* The returned lambda called: ext_type_dict.get(found_type, "Unknown").
Call_file_type_lambda ==
    /\ pc = "returned"
    /\ fn = "file_type_getter"
    /\ ret' = Return(IF DictHas(ret.val.ext_type_dict, args.found_type)
                     THEN DictGet(ret.val.ext_type_dict, args.found_type)
                     ELSE "Unknown")
    /\ pc' = "done"
    /\ UNCHANGED <<fn, args, heap, heap0, console, stack, trace>>

Call_join_first_sentences ==
    /\ pc = "call"
    /\ fn = "join_first_sentences"
    /\ ret' = join_first_sentences(args.sentences, args.n)
    /\ pc' = "done"
    /\ UNCHANGED <<fn, args, heap, heap0, console, stack, trace>>

Call_pair_document_with_format ==
    /\ pc = "call"
    /\ fn = "pair_document_with_format"
    /\ ret' = pair_document_with_format(args.doc_names, args.doc_formats)
    /\ pc' = "done"
    /\ UNCHANGED <<fn, args, heap, heap0, console, stack, trace>>

Call_sort_dates ==
    /\ pc = "call"
    /\ fn = "sort_dates"
    /\ ret' = sort_dates(heap, args.dates).ret
    /\ heap' = sort_dates(heap, args.dates).heap
    /\ pc' = "done"
    /\ UNCHANGED <<fn, args, heap0, console, stack, trace>>

Call_list_files ==
    /\ pc = "call"
    /\ fn = "list_files"
    /\ ret' = Return(list_files(args.parent_directory, args.current_filepath))
    /\ pc' = "done"
    /\ UNCHANGED <<fn, args, heap, heap0, console, stack, trace>>

NextSequence ==
    \/ Call_add_prefix
    \/ Thread_add_prefix
    \/ Call_file_type_getter
    \/ Call_file_type_lambda
    \/ Call_join_first_sentences
    \/ Call_pair_document_with_format
    \/ Call_sort_dates
    \/ Call_list_files

\* The number written by a string of decimal digits, -1 for any other
\* string.
DigitsNumber(digits) ==
    LET RECURSIVE Value(_, _)
        Value(ds, acc) ==
            IF ds = <<>> THEN acc
            ELSE Value(Tail(ds), 10 * acc + HexVal(Head(ds)))
    IN  IF /\ digits # <<>>
           /\ \A i \in 1..Len(digits) :
                  \E d \in 1..10 : LowerHex[d] = digits[i]
        THEN Value(digits, 0)
        ELSE 0 - 1

\* C13: add_prefix(document, documents) returns documents with exactly one
\* element appended, the decimal length of documents followed by '. ' and
\* the document, all earlier elements unchanged and in order; hence in a
\* tuple threaded from the empty tuple the element at index i carries the
\* prefix 'i. '.
AddPrefixAppendsIndexed ==
    (pc = "done" /\ fn = "add_prefix")
        => LET n == Len(args.documents)
               IsPrefixed(element, i, rest) ==
                   \E k \in 1..Len(element) :
                       /\ DigitsNumber(SubSeq(element, 1, k)) = i
                       /\ (k > 1 => element[1] # "0")
                       /\ SubSeq(element, k + 1, Len(element))
                              = <<".", " ">> \o rest
               AllIndexed(documents) ==
                   \A i \in 1..Len(documents) :
                       \E k \in 0..Len(documents[i]) :
                           IsPrefixed(documents[i], i - 1,
                                      SubSeq(documents[i], k + 1,
                                             Len(documents[i])))
           IN  /\ ret.kind = "return"
               /\ Len(ret.val) = n + 1
               /\ SubSeq(ret.val, 1, n) = args.documents
               /\ IsPrefixed(ret.val[n + 1], n, args.document)
               /\ (AllIndexed(args.documents) => AllIndexed(ret.val))
               /\ (n = 0 => AllIndexed(ret.val))

\* Eleven calls were threaded from the empty tuple: the last element
\* carries the two-digit prefix "10. ".
AddPrefixReachedTen ==
    /\ pc = "done"
    /\ fn = "add_prefix"
    /\ Len(ret.val) = 11
    /\ ret.val[1] = <<"0", ".", " ", "a">>
    /\ ret.val[10] = <<"9", ".", " ">>
    /\ ret.val[11] = <<"1", "0", ".", " ", "a">>

\* C14: the function returned by file_type_getter(pairs) maps an extension
\* to the type name of a pair whose extension list contains exactly that
\* extension (case-sensitive), and returns 'Unknown' for every extension
\* listed in no pair, the empty string and an empty pairs list included.
FileTypeOfListedExtension ==
    (pc = "done" /\ fn = "file_type_getter")
        => LET pairs == args.file_extension_tuples
               listing == {i \in 1..Len(pairs) :
                               InList(args.found_type, pairs[i][2])}
           IN  /\ ret.kind = "return"
               /\ (listing # {} => \E i \in listing : ret.val = pairs[i][1])
               /\ (listing = {} => ret.val = "Unknown")

\* An extension listed second in a pair was found, in its own letter case.
FileTypeFoundSecondExtension ==
    /\ pc = "done"
    /\ fn = "file_type_getter"
    /\ args.file_extension_tuples =
           << <<"Image", <<"png">> >>, <<"Document", <<"pdf", "PDF">> >> >>
    /\ args.found_type = "PDF"
    /\ ret = Return("Document")

\* C17: join_first_sentences(sentences, n) returns the empty string when n
\* is 0 and otherwise, for every list of sentences and every n >= 1, the
\* first min(n, len(sentences)) sentences joined by '. ' and followed by a
\* final '.'.
JoinFirstSentencesJoined ==
    (pc = "done" /\ fn = "join_first_sentences")
        => /\ ret.kind = "return"
           /\ (args.n = 0 => ret.val = <<>>)
           /\ (args.n >= 1 =>
                  LET m == Min(args.n, Len(args.sentences))
                      joined[i \in 0..m] ==
                          IF i = 0 THEN <<>>
                          ELSE IF i = 1 THEN args.sentences[1]
                          ELSE joined[i - 1] \o <<".", " ">>
                                   \o args.sentences[i]
                  IN  ret.val = joined[m] \o <<".">>)

\* C18: pair_document_with_format(doc_names, doc_formats) returns, in input
\* order, exactly the pairs (doc_names[i], doc_formats[i]) whose format is
\* one of docx, pdf, txt, pptx, ppt, md; other pairs are dropped, and lists
\* of different lengths raise an error instead of being truncated.
PairsKeepListedFormats ==
    (pc = "done" /\ fn = "pair_document_with_format")
        => LET names == args.doc_names
               formats == args.doc_formats
               kept == {i \in 1..Len(names) :
                            /\ i <= Len(formats)
                            /\ formats[i] \in {Docx, Pdf, Txt, Pptx, Ppt, Md}}
               nth(k) == CHOOSE i \in kept :
                             Cardinality({j \in kept : j <= i}) = k
           IN  IF Len(names) # Len(formats)
               THEN ret.kind = "raise"
               ELSE /\ ret.kind = "return"
                    /\ Len(ret.val) = Cardinality(kept)
                    /\ \A k \in 1..Len(ret.val) :
                           ret.val[k] = <<names[nth(k)], formats[nth(k)]>>

\* A pair with an unlisted format was dropped and the pair after it kept.
PairsDroppedOtherFormat ==
    /\ pc = "done"
    /\ fn = "pair_document_with_format"
    /\ args.doc_names = <<"a", "b">>
    /\ args.doc_formats = << <<"P", "D", "F">>, <<"m", "d">> >>
    /\ ret = Return(<< <<"b", <<"m", "d">> >> >>)

\* C19: sort_dates(dates) returns a permutation of the MM-DD-YYYY input
\* dates ordered chronologically (by year, then month, then day), keeps
\* equal dates in their input order, and does not modify the input list.
SortDatesChronological ==
    (pc = "done" /\ fn = "sort_dates")
        => LET dates == heap0[args.dates]
               n == Len(dates)
               Year(d) == DigitsNumber(SubSeq(d, 7, 10))
               Month(d) == DigitsNumber(SubSeq(d, 1, 2))
               Day(d) == DigitsNumber(SubSeq(d, 4, 5))
               Before(a, b) ==
                   \/ Year(a) < Year(b)
                   \/ Year(a) = Year(b) /\ Month(a) < Month(b)
                   \/ Year(a) = Year(b) /\ Month(a) = Month(b)
                          /\ Day(a) < Day(b)
           IN  /\ ret.kind = "return"
               /\ Len(ret.val) = n
               /\ \E p \in [1..n -> 1..n] :
                      /\ \A i, j \in 1..n : i # j => p[i] # p[j]
                      /\ \A i \in 1..n : ret.val[i] = dates[p[i]]
                      /\ \A i, j \in 1..n :
                             i < j => \/ Before(dates[p[i]], dates[p[j]])
                                      \/ /\ ~Before(dates[p[j]], dates[p[i]])
                                         /\ p[i] < p[j]
               /\ heap[args.dates] = dates

\* Three dates came back in another order than they went in: the year
\* decided before the month, the day last.
SortDatesReordered ==
    /\ pc = "done"
    /\ fn = "sort_dates"
    /\ heap0[args.dates] =
           << <<"0", "1", "-", "1", "5", "-", "2", "0", "2", "4">>,
              <<"1", "2", "-", "0", "2", "-", "1", "9", "9", "9">>,
              <<"0", "1", "-", "0", "2", "-", "2", "0", "2", "4">> >>
    /\ ret = Return(
           << <<"1", "2", "-", "0", "2", "-", "1", "9", "9", "9">>,
              <<"0", "1", "-", "0", "2", "-", "2", "0", "2", "4">>,
              <<"0", "1", "-", "1", "5", "-", "2", "0", "2", "4">> >>)

\* C20: list_files(directory, prefix) returns exactly one path per
\* None-valued entry of the nested directory, each path being prefix
\* followed by '/' + key for every key on the way from the root to that
\* entry; subdirectories that contain no file (empty ones included)
\* contribute no path, and paths appear in depth-first order.
ListFilesOnePathPerFile ==
    (pc = "done" /\ fn = "list_files")
        => LET order == DepthFirstKeys(args.parent_directory, 1)
               files == {i \in 1..Len(order) : order[i].file}
               nth(k) == CHOOSE i \in files :
                             Cardinality({j \in files : j <= i}) = k
               Ancestor(i, depth) ==
                   CHOOSE j \in 1..i :
                       /\ order[j].depth = depth
                       /\ \A later \in (j + 1)..i : order[later].depth # depth
               PathOf(i) ==
                   args.current_filepath
                       \o Concat([depth \in 1..order[i].depth |->
                                      <<"/">> \o order[Ancestor(i, depth)].key])
           IN  /\ ret.kind = "return"
               /\ Len(ret.val) = Cardinality(files)
               /\ \A k \in 1..Len(ret.val) : ret.val[k] = PathOf(nth(k))

\* A file inside a subdirectory and a file after it were listed, the empty
\* subdirectory between them was not.
ListFilesSkippedEmptyDirectory ==
    /\ pc = "done"
    /\ fn = "list_files"
    /\ args.parent_directory =
           << << <<"a">>, PyDict(<< << <<"b", ".", "c">>, PyNone >>,
                                    << <<"a">>, PyDict(<<>>) >> >>) >>,
              << <<"b", ".", "c">>, PyNone >> >>
    /\ args.current_filepath = <<"/", "r">>
    /\ ret = Return(<< <<"/", "r", "/", "a", "/", "b", ".", "c">>,
                       <<"/", "r", "/", "b", ".", "c">> >>)

----------------------------------------------------------------------------
(* The functions on the words and lines of a text: find_longest_word and   *)
(* remove_emphasis of main.py, convert_md_to_txt of decorators.py.  Their  *)
(* pending calls are drawn by InitText.                                    *)

\* A later word of the same length replacing the longest word so far.
RECURSIVE find_longest_word_last_longest(_, _)
find_longest_word_last_longest(document, longest_word) ==
    IF Strip(document) = <<>> THEN longest_word
    ELSE LET t == LStrip(document)
             stop == IF \E i \in 1..Len(t) : t[i] \in Whitespace
                     THEN CHOOSE i \in 1..Len(t) :
                              /\ t[i] \in Whitespace
                              /\ \A j \in 1..(i - 1) : t[j] \notin Whitespace
                     ELSE Len(t) + 1
             rest == LStrip(SubSeq(t, stop, Len(t)))
             words == IF rest = <<>> THEN <<SubSeq(t, 1, stop - 1)>>
                      ELSE <<SubSeq(t, 1, stop - 1), rest>>
             first_word == words[1]
             longer == IF Len(first_word) >= Len(longest_word)
                       THEN first_word ELSE longest_word
         IN  IF Len(words) > 1
             THEN find_longest_word_last_longest(words[2], longer)
             ELSE longer

\* document.split(maxsplit=1) gives the first word and, when anything but
\* whitespace follows it, the rest of the document from the next word on.
RECURSIVE find_longest_word(_, _)
find_longest_word(document, longest_word) ==
    IF Strip(document) = <<>> THEN longest_word
    ELSE LET t == LStrip(document)
             stop == IF \E i \in 1..Len(t) : t[i] \in Whitespace
                     THEN CHOOSE i \in 1..Len(t) :
                              /\ t[i] \in Whitespace
                              /\ \A j \in 1..(i - 1) : t[j] \notin Whitespace
                     ELSE Len(t) + 1
             rest == LStrip(SubSeq(t, stop, Len(t)))
             words == IF rest = <<>> THEN <<SubSeq(t, 1, stop - 1)>>
                      ELSE <<SubSeq(t, 1, stop - 1), rest>>
             first_word == words[1]
             longer == IF Len(first_word) > Len(longest_word)
                       THEN first_word ELSE longest_word
         IN  IF Len(words) > 1
             THEN find_longest_word(words[2], longer)
             ELSE longer

\* line.lstrip("# "): the argument is a set of characters, every leading
\* '#' and ' ' is removed.
convert_md_to_txt(doc) ==
    LET RECURSIVE lstrip(_)
        lstrip(line) ==
            IF line # <<>> /\ Head(line) \in {"#", " "}
            THEN lstrip(Tail(line)) ELSE line
        lines == Split(doc, "\n")
    IN  Join([i \in 1..Len(lines) |-> lstrip(lines[i])], "\n")

\* word.strip("*")
remove_word_emphasis(word) ==
    LET RECURSIVE lstrip(_)
        lstrip(w) == IF w # <<>> /\ Head(w) = "*" THEN lstrip(Tail(w)) ELSE w
        RECURSIVE rstrip(_)
        rstrip(w) == IF w # <<>> /\ w[Len(w)] = "*"
                     THEN rstrip(SubSeq(w, 1, Len(w) - 1)) ELSE w
    IN  rstrip(lstrip(word))

remove_line_emphasis(line) ==
    LET words == SplitWhitespace(line)
        new_words == [i \in 1..Len(words) |-> remove_word_emphasis(words[i])]
    IN  Join(new_words, " ")

remove_emphasis(doc) ==
    LET lines == Split(doc, "\n")
        new_lines == [i \in 1..Len(lines) |-> remove_line_emphasis(lines[i])]
    IN  Join(new_lines, "\n")

\* The longest text given to these functions, in characters.
MaxTextChars == 5

InitText ==
    /\ pc = "call"
    /\ ret = Pending
    /\ heap = <<>>
    /\ heap0 = heap
    /\ console = <<>>
    /\ stack = <<>>
    /\ trace = <<>>
    /\ \/ /\ fn = "find_longest_word"
          /\ args \in [document : SeqsUpTo({"a", "b", " ", "\n"}, MaxTextChars)]
       \/ /\ fn = "convert_md_to_txt"
          /\ args \in [doc : SeqsUpTo({"a", "#", " ", "\n"}, MaxTextChars)]
       \/ /\ fn = "remove_emphasis"
          /\ args \in [doc : SeqsUpTo({"a", "*", " ", "\n"}, MaxTextChars)]

\* longest_word takes its default, the empty string.
Call_find_longest_word ==
    /\ pc = "call"
    /\ fn = "find_longest_word"
    /\ ret' = Return(find_longest_word(args.document, <<>>))
    /\ pc' = "done"
    /\ UNCHANGED <<fn, args, heap, heap0, console, stack, trace>>

Call_convert_md_to_txt ==
    /\ pc = "call"
    /\ fn = "convert_md_to_txt"
    /\ ret' = Return(convert_md_to_txt(args.doc))
    /\ pc' = "done"
    /\ UNCHANGED <<fn, args, heap, heap0, console, stack, trace>>

Call_remove_emphasis ==
    /\ pc = "call"
    /\ fn = "remove_emphasis"
    /\ ret' = Return(remove_emphasis(args.doc))
    /\ pc' = "done"
    /\ UNCHANGED <<fn, args, heap, heap0, console, stack, trace>>

NextText ==
    \/ Call_find_longest_word
    \/ Call_convert_md_to_txt
    \/ Call_remove_emphasis

\* C21: find_longest_word(document) returns the empty string for an empty
\* or whitespace-only document and otherwise the first word, in document
\* order, whose length is maximal among the whitespace-separated words; the
\* recursion terminates for every finite document.
LongestWordIsFirstMaximal ==
    (pc = "done" /\ fn = "find_longest_word")
        => LET words == SplitWhitespace(args.document)
           IN  /\ ret.kind = "return"
               /\ (words = <<>> => ret.val = <<>>)
               /\ (words # <<>> =>
                      \E i \in 1..Len(words) :
                          /\ ret.val = words[i]
                          /\ \A j \in 1..Len(words) :
                                 Len(words[j]) <= Len(words[i])
                          /\ \A j \in 1..(i - 1) :
                                 Len(words[j]) < Len(words[i]))

\* Of two words of the same, maximal length the first was returned.
LongestWordTieToFirst ==
    /\ pc = "done"
    /\ fn = "find_longest_word"
    /\ args.document = <<"a", "b", " ", "b", "a">>
    /\ ret = Return(<<"a", "b">>)

\* C22: convert_md_to_txt(doc) removes the markdown header marker ('#'
\* characters and the following space) from the start of each header line
\* and returns every line that is not a markdown header unchanged; the
\* number and order of lines is preserved.
MdHeadersStrippedOtherLinesKept ==
    (pc = "done" /\ fn = "convert_md_to_txt")
        => LET lines == Split(args.doc, "\n")
               Hashes(line) ==
                   Cardinality({k \in 1..Len(line) :
                                    \A j \in 1..k : line[j] = "#"})
               IsHeader(line) ==
                   /\ Hashes(line) >= 1
                   /\ (Len(line) > Hashes(line)
                           => line[Hashes(line) + 1] = " ")
           IN  /\ ret.kind = "return"
               /\ Len(Split(ret.val, "\n")) = Len(lines)
               /\ \A i \in 1..Len(lines) :
                      Split(ret.val, "\n")[i] =
                          IF IsHeader(lines[i])
                          THEN SubSeq(lines[i], Hashes(lines[i]) + 2,
                                      Len(lines[i]))
                          ELSE lines[i]

\* C23: remove_emphasis(doc) removes the asterisks at the start and end of
\* each word and keeps the number of lines; a document that contains no
\* asterisk is returned unchanged.
EmphasisRemovedRestUnchanged ==
    (pc = "done" /\ fn = "remove_emphasis")
        => LET RECURSIVE WordsStripped(_)
               WordsStripped(s) ==
                   IF s = <<>> THEN <<>>
                   ELSE IF Head(s) \in Whitespace
                   THEN <<Head(s)>> \o WordsStripped(Tail(s))
                   ELSE LET stop ==
                                IF \E i \in 1..Len(s) : s[i] \in Whitespace
                                THEN CHOOSE i \in 1..Len(s) :
                                         /\ s[i] \in Whitespace
                                         /\ \A j \in 1..(i - 1) :
                                                s[j] \notin Whitespace
                                ELSE Len(s) + 1
                        IN  remove_word_emphasis(SubSeq(s, 1, stop - 1))
                                \o WordsStripped(SubSeq(s, stop, Len(s)))
           IN  /\ ret.kind = "return"
               /\ Len(Split(ret.val, "\n")) = Len(Split(args.doc, "\n"))
               /\ ret.val = WordsStripped(args.doc)
               /\ ((\A i \in 1..Len(args.doc) : args.doc[i] # "*")
                       => ret.val = args.doc)

----------------------------------------------------------------------------
(* The decorated plugin configurations of plugins.py (through              *)
(* configure_plugin_decorator of decorators.py) and args_logger of         *)
(* logger.py.  Their pending calls are drawn by InitPlugin.                *)

\* configure_backups as defined: the keyword arguments over the defaults,
\* TypeError for a keyword that is not a parameter.
configure_backups(kwargs) ==
    LET given(name, default) ==
            IF DictHas(kwargs, name) THEN DictGet(kwargs, name) ELSE default
        unexpected == {i \in 1..Len(kwargs) :
                           kwargs[i][1] \notin {"path", "prefix", "extension"}}
    IN  IF unexpected # {}
        THEN RaiseWith("TypeError", "got an unexpected keyword argument",
                       kwargs[CHOOSE i \in unexpected :
                                  \A j \in unexpected : i <= j][1])
        ELSE Return(<< <<"path", given("path", [type |-> "str",
                                                  val |-> "~/backups"])>>,
                       <<"prefix", given("prefix", [type |-> "str",
                                                    val |-> "copy_"])>>,
                       <<"extension", given("extension", [type |-> "str",
                                                          val |-> ".txt"])>> >>)

configure_login(kwargs) ==
    LET given(name, default) ==
            IF DictHas(kwargs, name) THEN DictGet(kwargs, name) ELSE default
        unexpected == {i \in 1..Len(kwargs) :
                           kwargs[i][1] \notin {"user", "password", "token"}}
    IN  IF unexpected # {}
        THEN RaiseWith("TypeError", "got an unexpected keyword argument",
                       kwargs[CHOOSE i \in unexpected :
                                  \A j \in unexpected : i <= j][1])
        ELSE Return(<< <<"user", given("user", PyNone)>>,
                       <<"password", given("password", PyNone)>>,
                       <<"token", given("token", PyNone)>> >>)

\* The last pair left out of the keyword arguments.
configure_plugin_decorator_last_pair_lost(func, pairs) ==
    LET kwargs == DictUnion(<<>>, SubSeq(pairs, 1, Len(pairs) - 1))
    IN  IF func = "configure_backups" THEN configure_backups(kwargs)
        ELSE configure_login(kwargs)

\* wrapper(*args) of the decorated func: func(**dict(args)); in dict(args)
\* the last pair of a repeated name stays, at the place of the first.
configure_plugin_decorator(func, pairs) ==
    LET kwargs == DictUnion(<<>>, pairs)
    IN  IF func = "configure_backups" THEN configure_backups(kwargs)
        ELSE configure_login(kwargs)

\* Keyword arguments printed in the order they were passed.
args_logger_unsorted(positional, kwargs) ==
    [i \in 1..Len(positional) |->
         Decimal(i) \o <<".", " ">> \o positional[i]]
    \o [i \in 1..Len(kwargs) |->
            <<"*", " ">> \o kwargs[i][1] \o <<":", " ">> \o kwargs[i][2]]

\* The lines args_logger prints, in order.  sorted(kwargs.items()) orders
\* the items by key, the keys compared as strings character by character
\* (capitals before small letters).
args_logger(positional, kwargs) ==
    LET Ord(c) == CHOOSE i \in 1..52 : (UpperLetters \o LowerLetters)[i] = c
        RECURSIVE Less(_, _)
        Less(a, b) ==
            IF b = <<>> THEN FALSE
            ELSE IF a = <<>> THEN TRUE
            ELSE IF Head(a) = Head(b) THEN Less(Tail(a), Tail(b))
            ELSE Ord(Head(a)) < Ord(Head(b))
        RECURSIVE Insert(_, _)
        Insert(sorted, item) ==
            IF sorted # <<>> /\ Less(item[1], sorted[Len(sorted)][1])
            THEN Append(Insert(SubSeq(sorted, 1, Len(sorted) - 1), item),
                        sorted[Len(sorted)])
            ELSE Append(sorted, item)
        RECURSIVE SortedFrom(_, _)
        SortedFrom(sorted, rest) ==
            IF rest = <<>> THEN sorted
            ELSE SortedFrom(Insert(sorted, Head(rest)), Tail(rest))
        items == SortedFrom(<<>>, kwargs)
    IN  [i \in 1..Len(positional) |->
             Decimal(i) \o <<".", " ">> \o positional[i]]
        \o [i \in 1..Len(items) |->
                <<"*", " ">> \o items[i][1] \o <<":", " ">> \o items[i][2]]

\* The most pairs given to a decorated plugin, and the most positional and
\* the most keyword arguments given to args_logger.
MaxPluginPairs == 2
MaxLoggerArgs == 2

InitPlugin ==
    /\ pc = "call"
    /\ ret = Pending
    /\ heap = <<>>
    /\ heap0 = heap
    /\ console = <<>>
    /\ stack = <<>>
    /\ trace = <<>>
    /\ \/ /\ fn \in {"configure_backups", "configure_login"}
          /\ args \in [pairs :
                           SeqsUpTo({"path", "prefix", "extension",
                                     "user", "password", "token"}
                                        \X {[type |-> "str", val |-> "x"],
                                            PyNone},
                                    MaxPluginPairs)]
       \/ /\ fn = "args_logger"
          /\ args \in [positional :
                           SeqsUpTo({<<"x">>, <<>>}, MaxLoggerArgs),
                       kwargs :
                           DictsUpTo({<<"a">>, <<"a", "b">>, <<"B">>},
                                     {<<"x">>, <<"y">>}, MaxLoggerArgs)]

\* The decorated function called: wrapper(*args).
Call_configure_plugin ==
    /\ pc = "call"
    /\ fn \in {"configure_backups", "configure_login"}
    /\ ret' = configure_plugin_decorator(fn, args.pairs)
    /\ pc' = "done"
    /\ UNCHANGED <<fn, args, heap, heap0, console, stack, trace>>

\* One print of args_logger: the next line goes to the console.
Print_args_logger ==
    /\ pc = "call"
    /\ fn = "args_logger"
    /\ Len(console) < Len(args_logger(args.positional, args.kwargs))
    /\ console' = Append(console, args_logger(args.positional,
                                              args.kwargs)[Len(console) + 1])
    /\ UNCHANGED <<pc, fn, args, ret, heap, heap0, stack, trace>>

\* Both loops of args_logger are over: it returns None.
Return_args_logger ==
    /\ pc = "call"
    /\ fn = "args_logger"
    /\ Len(console) = Len(args_logger(args.positional, args.kwargs))
    /\ ret' = ReturnNone
    /\ pc' = "done"
    /\ UNCHANGED <<fn, args, heap, heap0, console, stack, trace>>

NextPlugin ==
    \/ Call_configure_plugin
    \/ Print_args_logger
    \/ Return_args_logger

\* C24: a function wrapped by configure_plugin_decorator and called with
\* (name, value) pairs returns the wrapped function's result in which each
\* named parameter has the given value and every parameter not named keeps
\* its default; with no pairs it returns all defaults (configure_backups:
\* ~/backups, copy_, .txt; configure_login: all None).
PluginNamedOverDefaults ==
    (pc = "done" /\ fn \in {"configure_backups", "configure_login"})
        => LET defaults ==
                   IF fn = "configure_backups"
                   THEN [path |-> [type |-> "str", val |-> "~/backups"],
                         prefix |-> [type |-> "str", val |-> "copy_"],
                         extension |-> [type |-> "str", val |-> ".txt"]]
                   ELSE [user |-> PyNone, password |-> PyNone,
                         token |-> PyNone]
               naming(p) == {i \in 1..Len(args.pairs) : args.pairs[i][1] = p}
           IN  (\A i \in 1..Len(args.pairs) :
                    args.pairs[i][1] \in DOMAIN defaults)
                   => /\ ret.kind = "return"
                      /\ {ret.val[i][1] : i \in 1..Len(ret.val)}
                             = DOMAIN defaults
                      /\ Len(ret.val) = Cardinality(DOMAIN defaults)
                      /\ \A i \in 1..Len(ret.val) :
                             LET p == ret.val[i][1]
                             IN  IF naming(p) = {}
                                 THEN ret.val[i][2] = defaults[p]
                                 ELSE \E j \in naming(p) :
                                          ret.val[i][2] = args.pairs[j][2]

\* Two parameters of configure_login were named, the third kept None.
PluginTwoNamed ==
    /\ pc = "done"
    /\ fn = "configure_login"
    /\ args.pairs = << <<"token", [type |-> "str", val |-> "x"]>>,
                       <<"user", [type |-> "str", val |-> "x"]>> >>
    /\ ret = Return(<< <<"user", [type |-> "str", val |-> "x"]>>,
                       <<"password", PyNone>>,
                       <<"token", [type |-> "str", val |-> "x"]>> >>)

\* C25: args_logger emits one line 'i. value' per positional argument,
\* numbered from 1 in argument order, then one line '* key: value' per
\* keyword argument in ascending key order; every positional line is
\* emitted before every keyword line, and a call with no arguments emits
\* nothing.
LoggerLinesInOrder ==
    (fn = "args_logger")
        => LET n == Len(args.positional)
               ascending == << <<"B">>, <<"a">>, <<"a", "b">> >>
               present == {i \in 1..Len(ascending) :
                               DictHas(args.kwargs, ascending[i])}
               nth(k) == CHOOSE i \in present :
                             Cardinality({j \in present : j <= i}) = k
               IsNumbered(line, k, value) ==
                   \E j \in 1..Len(line) :
                       /\ DigitsNumber(SubSeq(line, 1, j)) = k
                       /\ SubSeq(line, j + 1, Len(line))
                              = <<".", " ">> \o value
           IN  /\ Len(console) <= n + Len(args.kwargs)
               /\ \A k \in 1..Len(console) :
                      IF k <= n
                      THEN IsNumbered(console[k], k, args.positional[k])
                      ELSE console[k] =
                               <<"*", " ">> \o ascending[nth(k - n)]
                                   \o <<":", " ">>
                                   \o DictGet(args.kwargs,
                                              ascending[nth(k - n)])
               /\ (pc = "done" => /\ Len(console) = n + Len(args.kwargs)
                                  /\ ret = ReturnNone)

\* A positional line, then the keyword lines in ascending key order, the
\* keywords having been passed in the opposite order.
LoggerSortedKeywords ==
    /\ pc = "done"
    /\ fn = "args_logger"
    /\ args.positional = << <<"x">> >>
    /\ args.kwargs = << << <<"a", "b">>, <<"y">> >>, << <<"B">>, <<"x">> >> >>
    /\ console = << <<"1", ".", " ", "x">>,
                    <<"*", " ", "B", ":", " ", "x">>,
                    <<"*", " ", "a", "b", ":", " ", "y">> >>

----------------------------------------------------------------------------
(* factorial_r, call by call: stack holds one frame per call that waits    *)
(* for its recursive call, so the call being executed has the argument     *)
(* args.x less one per frame.                                              *)

\* The largest argument of factorial_r.  A recursion that does not end is
\* followed for two frames more than that.
MaxFactorial == 10

InitFactorial ==
    /\ pc = "call"
    /\ fn = "factorial_r"
    /\ args \in [x : (0 - 3)..MaxFactorial]
    /\ ret = Pending
    /\ heap = <<>>
    /\ heap0 = heap
    /\ console = <<>>
    /\ stack = <<>>
    /\ trace = <<>>

\* The body of the call at the top: the base case returns 1, any other x
\* calls factorial_r(x - 1) and waits.
Call_factorial_r ==
    /\ pc = "call"
    /\ fn = "factorial_r"
    /\ LET x == args.x - Len(stack)
       IN  IF x = 0
           THEN /\ ret' = Return(1)
                /\ pc' = IF stack = <<>> THEN "done" ELSE "return"
                /\ stack' = stack
           ELSE /\ Len(stack) < MaxFactorial + 2
                /\ stack' = Append(stack, [x |-> x])
                /\ UNCHANGED <<pc, ret>>
    /\ UNCHANGED <<fn, args, heap, heap0, console, trace>>

\* The waiting call adding its x to the result instead of multiplying.
Return_factorial_r_adding ==
    /\ pc = "return"
    /\ fn = "factorial_r"
    /\ ret' = Return(stack[Len(stack)].x + ret.val)
    /\ stack' = SubSeq(stack, 1, Len(stack) - 1)
    /\ pc' = IF Len(stack) = 1 THEN "done" ELSE "return"
    /\ UNCHANGED <<fn, args, heap, heap0, console, trace>>

\* The innermost waiting call gets its result: return x * factorial_r(x - 1).
Return_factorial_r ==
    /\ pc = "return"
    /\ fn = "factorial_r"
    /\ ret' = Return(stack[Len(stack)].x * ret.val)
    /\ stack' = SubSeq(stack, 1, Len(stack) - 1)
    /\ pc' = IF Len(stack) = 1 THEN "done" ELSE "return"
    /\ UNCHANGED <<fn, args, heap, heap0, console, trace>>

\* Python runs a call that has started to its end: the steps are fair.
SpecFactorial ==
    /\ InitFactorial
    /\ [][Call_factorial_r \/ Return_factorial_r]_vars
    /\ WF_vars(Call_factorial_r \/ Return_factorial_r)

\* C30: for every integer x >= 0, factorial_r(x) terminates after x
\* recursive calls and returns x! (1 for x = 0); for x < 0 the recursion
\* moves away from the base case x == 0 and never reaches it.
FactorialTerminatesWithProduct ==
    /\ [](fn = "factorial_r" /\ args.x >= 0
            => LET fact[n \in Nat] == IF n = 0 THEN 1 ELSE n * fact[n - 1]
               IN  /\ Len(stack) <= args.x
                   /\ pc = "call" => ret = Pending
                   /\ pc = "return" => ret = Return(fact[args.x - Len(stack)])
                   /\ pc = "done" => stack = <<>> /\ ret = Return(fact[args.x]))
    /\ [][fn = "factorial_r" /\ args.x >= 0 /\ pc = "call" /\ pc' # "call"
            => Len(stack) = args.x]_vars
    /\ (fn = "factorial_r" /\ args.x >= 0) ~> (pc = "done")
    /\ [](fn = "factorial_r" /\ args.x < 0
            => /\ pc = "call"
               /\ args.x - Len(stack) < 0
               /\ \A i \in 1..Len(stack) : stack[i].x = args.x - (i - 1))

\* factorial_r(5) returned 120 when its five recursive calls had returned.
FactorialOfFive ==
    /\ pc = "done"
    /\ fn = "factorial_r"
    /\ args.x = 5
    /\ stack = <<>>
    /\ trace = <<>>
    /\ ret = Return(120)

----------------------------------------------------------------------------
(* main.py imported and then used: the module-level objects                *)
(* default_commands, default_formats and saved_documents are the first     *)
(* three objects of the heap, main() has run (it prints through test), and *)
(* the importer makes one call after another, passing each function the    *)
(* object its previous call returned (the module-level object the first    *)
(* time).  trace holds the calls that have returned, main() first.  A      *)
(* console line is kept as the pieces the f-string joins, with the         *)
(* function that printed it.                                               *)

\* f"{first}: {second}"
colon_delimit(first, second) == <<first, ": ", second>>

\* f"{first} - {second}"
dash_delimit(first, second) == <<first, " - ", second>>

\* The line that get_logger(formatter)(first, second) prints.
get_logger(formatter, first, second) ==
    [by |-> "logger",
     line |-> IF formatter = "colon_delimit" THEN colon_delimit(first, second)
              ELSE dash_delimit(first, second)]

\* The lines test prints: its header, one line of the logger per error,
\* its footer.
test(first, errors, formatter) ==
    <<[by |-> "test", line |-> <<"Logs:">>]>>
    \o [i \in 1..Len(errors) |-> get_logger(formatter, first, errors[i])]
    \o <<[by |-> "test", line |-> <<"====================================">>]>>

\* The most calls made after the import.
MaxSessionCalls == 3

\* The module as it is once imported: main() has returned.
InitModule ==
    /\ pc = "done"
    /\ fn = "main"
    /\ args = <<>>
    /\ ret = ReturnNone
    /\ heap = << <<>>, <<"txt", "md", "html">>, <<>> >>
    /\ heap0 = heap
    /\ console = test("Doc2Doc FATAL",
                      <<"out of memory", "cpu is pegged", "networking issue",
                        "invalid syntax">>,
                      "colon_delimit")
                 \o test("Doc2Doc WARNING",
                         <<"email too large", "non alphanumeric symbols found">>,
                         "dash_delimit")
    /\ stack = <<>>
    /\ trace = <<>>

\* The importer's next call, after main() or an earlier call has returned.
Next_call ==
    /\ pc = "done"
    /\ fn = "main" \/ trace # <<>>
    /\ LET made == Append(trace, [fn |-> fn, args |-> args, ret |-> ret])
           of(f) == {i \in 1..Len(made) : made[i].fn = f}
           last(f) == made[CHOOSE i \in of(f) : \A j \in of(f) : j <= i].ret.val
       IN  /\ Len(made) <= MaxSessionCalls
           /\ trace' = made
           /\ \/ /\ fn' = "word_count_memo"
                 /\ args' \in [document : {<<>>, <<"a">>, <<"a", " ", "b">>},
                               memos : {IF of("word_count_memo") = {} THEN 3
                                        ELSE last("word_count_memo")[2]}]
              \/ /\ fn' = "save_document"
                 /\ args' \in [docs : {IF of("save_document") = {} THEN 3
                                       ELSE last("save_document")},
                               file_name : FileNameAtoms,
                               doc : DocumentAtoms]
              \/ /\ fn' = "add_format"
                 /\ args' \in [formats : {IF of("add_format") = {} THEN 2
                                          ELSE last("add_format")},
                               fmt : {"pdf"}]
              \/ /\ fn' = "add_custom_command"
                 /\ args' \in [commands : {IF of("add_custom_command") = {}
                                           THEN 1
                                           ELSE last("add_custom_command")},
                               new_command : {"save"},
                               function : {"word_count"}]
              \/ /\ fn' = "remove_format"
                 /\ args' \in [formats : {1, 3}, old_format : {"txt"}]
              \/ /\ fn' = "test"
                 /\ args' \in [first : {"F"},
                               errors : SeqsUpTo({"e"}, 1),
                               formatter : {"colon_delimit", "dash_delimit"}]
    /\ pc' = "call"
    /\ ret' = Pending
    /\ heap0' = heap
    /\ UNCHANGED <<heap, console, stack>>

Call_test ==
    /\ pc = "call"
    /\ fn = "test"
    /\ console' = console \o test(args.first, args.errors, args.formatter)
    /\ ret' = ReturnNone
    /\ pc' = "done"
    /\ UNCHANGED <<fn, args, heap, heap0, stack, trace>>

SpecModule ==
    InitModule
    /\ [][\/ Next_call
          \/ Call_word_count_memo
          \/ NextUpdate
          \/ Call_test]_vars

\* C27: starting from an empty memo table and threading the returned table
\* through any sequence of word_count_memo calls, every entry table[d]
\* equals word_count(d), the key set only grows, each call returns
\* word_count(document), and a call for a document already in the table
\* returns a table with the same contents.
MemoThreadedFromEmpty ==
    (pc = "done" /\ fn = "word_count_memo")
        => LET passed == heap0[args.memos]
               returned == heap[ret.val[2]]
               earlier == {i \in 1..Len(trace) :
                               trace[i].fn = "word_count_memo"}
           IN  /\ \A i \in 1..Len(returned) :
                      returned[i][2] = WordStarts(returned[i][1])
               /\ DictKeys(passed) \subseteq DictKeys(returned)
               /\ \A i \in earlier :
                      DictKeys(heap[trace[i].ret.val[2]])
                          \subseteq DictKeys(returned)
               /\ ret.val[1] = WordStarts(args.document)
               /\ (DictHas(passed, args.document) => returned = passed)

\* The third call asked for the document of the first call again: the
\* count came from the table, which came back with the same two entries.
MemoThreadedHit ==
    /\ pc = "done"
    /\ fn = "word_count_memo"
    /\ Len(trace) = 3
    /\ trace[2].fn = "word_count_memo"
    /\ trace[2].args.document = <<"a", " ", "b">>
    /\ trace[3].fn = "word_count_memo"
    /\ trace[3].args.document = <<>>
    /\ args.document = <<"a", " ", "b">>
    /\ ret.val[1] = 2
    /\ heap[ret.val[2]] = << <<<<"a", " ", "b">>, 2>>, <<<<>>, 0>> >>

\* C28: threading the returned mapping through any sequence of
\* save_document calls, the mapping holds for each file name the document
\* of the most recent save under that name, entries under other names are
\* untouched by a save, and a name once saved is never removed.
SavedHoldsMostRecent ==
    (pc = "done" /\ fn = "save_document")
        => LET saves == SelectSeq(trace,
                                  LAMBDA call : call.fn = "save_document")
                            \o <<[fn |-> fn, args |-> args, ret |-> ret]>>
               passed == heap0[args.docs]
               returned == heap[ret.val]
           IN  /\ DictKeys(returned)
                      = {saves[i].args.file_name : i \in 1..Len(saves)}
               /\ Len(returned) = Cardinality(DictKeys(returned))
               /\ \A i \in 1..Len(saves) :
                      (\A j \in (i + 1)..Len(saves) :
                           saves[j].args.file_name # saves[i].args.file_name)
                          => DictGet(returned, saves[i].args.file_name)
                                 = saves[i].args.doc
               /\ \A name \in DictKeys(passed) \ {args.file_name} :
                      DictGet(returned, name) = DictGet(passed, name)
               /\ \A i \in 1..Len(saves) :
                      DictKeys(heap[saves[i].ret.val])
                          \subseteq DictKeys(returned)

\* A file saved, another file saved, the first file saved again: the
\* mapping holds the later document of the first and the document of the
\* other.
SavedOverwritten ==
    /\ pc = "done"
    /\ fn = "save_document"
    /\ Len(trace) = 3
    /\ trace[2].fn = "save_document"
    /\ trace[2].args.file_name = "a.txt"
    /\ trace[2].args.doc = "draft"
    /\ trace[3].fn = "save_document"
    /\ trace[3].args.file_name = "b.md"
    /\ args.file_name = "a.txt"
    /\ args.doc = "final"
    /\ heap[ret.val] = << <<"a.txt", "final">>, <<"b.md", trace[3].args.doc>> >>

\* C29: no function of main.py, called in any order and with any
\* arguments (the module-level default_commands, default_formats and
\* saved_documents included), changes module-level state: default_commands
\* is still empty, default_formats still [txt, md, html], saved_documents
\* still empty; the only effects outside return values are console lines
\* from get_logger-produced loggers and args_logger.
ModuleStateKeptOnlyLoggersPrint ==
    /\ heap[1] = <<>>
    /\ heap[2] = <<"txt", "md", "html">>
    /\ heap[3] = <<>>
    /\ \A i \in 1..Len(console) : console[i].by \in {"logger", "args_logger"}

\* C29 as amended: the module-level state is as C29 says, no object that
\* exists is changed by a call, and the console lines come from
\* get_logger-produced loggers and from test itself, which prints the
\* header 'Logs:' before and a footer of '=' after the lines of its logger.
ModuleStateKeptLoggersAndTestPrint ==
    /\ [](/\ heap[1] = <<>>
          /\ heap[2] = <<"txt", "md", "html">>
          /\ heap[3] = <<>>
          /\ \A i \in 1..Len(console) :
                 \/ console[i].by = "logger"
                 \/ /\ console[i].by = "test"
                    /\ console[i].line \in
                           {<<"Logs:">>,
                            <<"====================================">>})
    /\ [][/\ Len(heap') >= Len(heap)
          /\ \A r \in 1..Len(heap) : heap'[r] = heap[r]
          /\ Len(console') >= Len(console)
          /\ SubSeq(console', 1, Len(console)) = console]_vars

\* default_formats, saved_documents and default_commands were each passed
\* to a call, which returned its update in a new object.
ModuleObjectsPassed ==
    /\ pc = "done"
    /\ fn = "add_custom_command"
    /\ args.commands = 1
    /\ Len(trace) = 3
    /\ trace[2].fn = "add_format"
    /\ trace[2].args.formats = 2
    /\ trace[3].fn = "save_document"
    /\ trace[3].args.docs = 3
    /\ heap[trace[2].ret.val] = <<"txt", "md", "html", "pdf">>
    /\ heap[ret.val] = << <<"save", "word_count">> >>
    /\ heap[1] = <<>>
    /\ heap[2] = <<"txt", "md", "html">>
    /\ heap[3] = <<>>

----------------------------------------------------------------------------
(* word_count_aggregator, new_collection and css_styles: each call makes   *)
(* a closure with a state of its own.  A closure is known by the reference *)
(* of its state in the heap: a running count, a list of documents, a dict  *)
(* from selector to a dict from property to value.  The first two objects  *)
(* of the heap are the list and the dict that creations are given; heap0   *)
(* keeps the heap as it was before any creation.  Every step is one whole  *)
(* creation or call, and trace holds them in the order they were made.     *)

\* The most creations and calls in a run.
MaxClosureCalls == 5

InitClosure ==
    /\ pc = "done"
    /\ fn = "import"
    /\ args = <<>>
    /\ ret = ReturnNone
    /\ heap \in {<<initial_docs, initial_styles>> :
                     initial_docs \in {<<>>, <<"doc1">>},
                     initial_styles \in
                         {<<>>, << <<"body", << <<"color", "red">> >> >> >>}}
    /\ heap0 = heap
    /\ console = <<>>
    /\ stack = <<>>
    /\ trace = <<>>

\* The closures made so far by the function named.
Closures(function) ==
    {trace[i].ret.val : i \in {j \in 1..Len(trace) : trace[j].fn = function}}

\* One creation or call made: it is the last of the trace.
Made(function, arguments, result, h) ==
    /\ Len(trace) < MaxClosureCalls
    /\ fn' = function
    /\ args' = arguments
    /\ ret' = result
    /\ heap' = h
    /\ trace' = Append(trace, [fn |-> function, args |-> arguments,
                               ret |-> result])
    /\ UNCHANGED <<pc, heap0, console, stack>>

Create_word_count_aggregator ==
    /\ pc = "done"
    /\ Cardinality(Closures("word_count_aggregator")) < 2
    /\ Made("word_count_aggregator", <<>>, Return(NewRef(heap)),
            Alloc(heap, 0))

\* The collection starts as a copy of the list it is given.
Create_new_collection_on_the_list_given ==
    /\ pc = "done"
    /\ Cardinality(Closures("new_collection")) < 2
    /\ Made("new_collection", [initial_docs |-> 1], Return(1), heap)

Create_new_collection ==
    /\ pc = "done"
    /\ Cardinality(Closures("new_collection")) < 2
    /\ Made("new_collection", [initial_docs |-> 1], Return(NewRef(heap)),
            Alloc(heap, heap[1]))

\* The styles start as a copy of the dict they are given, inner dicts
\* included.
Create_css_styles ==
    /\ pc = "done"
    /\ Cardinality(Closures("css_styles")) < 2
    /\ Made("css_styles", [initial_styles |-> 2], Return(NewRef(heap)),
            Alloc(heap, heap[2]))

Call_aggregator ==
    /\ pc = "done"
    /\ \E self \in Closures("word_count_aggregator"),
          doc \in {<<>>, <<"a", " ", "b">>} :
           LET count == heap[self] + word_count(doc)
           IN  Made("aggregator", [self |-> self, doc |-> doc],
                    Return(count), Store(heap, self, count))

Call_add_doc ==
    /\ pc = "done"
    /\ \E self \in Closures("new_collection"), doc \in {"doc2", "doc3"} :
           LET docs == Append(heap[self], doc)
           IN  Made("add_doc", [self |-> self, doc |-> doc],
                    Return(docs), Store(heap, self, docs))

Call_add_style ==
    /\ pc = "done"
    /\ \E self \in Closures("css_styles"),
          style \in {<<"body", "color", "blue">>, <<"body", "margin", "0">>,
                     <<"h1", "color", "red">>} :
           LET selector == style[1]
               property == style[2]
               value == style[3]
               of_selector == IF DictHas(heap[self], selector)
                              THEN DictGet(heap[self], selector)
                              ELSE <<>>
               styles == DictSet(heap[self], selector,
                                 DictSet(of_selector, property, value))
           IN  Made("add_style",
                    [self |-> self, selector |-> selector,
                     property |-> property, value |-> value],
                    Return(styles), Store(heap, self, styles))

SpecClosure ==
    InitClosure
    /\ [][\/ Create_word_count_aggregator
          \/ Create_new_collection
          \/ Create_css_styles
          \/ Call_aggregator
          \/ Call_add_doc
          \/ Call_add_style]_vars

\* C26: word_count_aggregator, new_collection and css_styles keep their
\* accumulated state local to the instance returned by each call: calls on
\* one instance accumulate (running word total, appended documents, merged
\* styles), two instances created separately never affect each other under
\* any interleaving of calls, and the list or dict passed at creation is
\* never modified.  Stated on the last call made: its result is what the
\* calls made on its own instance, and nothing else, account for.
ClosureStateLocalToInstance ==
    /\ heap[1] = heap0[1]
    /\ heap[2] = heap0[2]
    /\ (trace # <<>> /\ fn \in {"aggregator", "add_doc", "add_style"})
        => LET own == SelectSeq(trace,
                                LAMBDA call : /\ call.fn = fn
                                              /\ call.args.self = args.self)
               RECURSIVE Total(_)
               Total(n) == IF n = 0 THEN 0
                           ELSE Total(n - 1) + WordStarts(own[n].args.doc)
               Styled(styles, selector, property) ==
                   IF /\ DictHas(styles, selector)
                      /\ DictHas(DictGet(styles, selector), property)
                   THEN <<DictGet(DictGet(styles, selector), property)>>
                   ELSE <<>>
               Expected(selector, property) ==
                   LET calls == {n \in 1..Len(own) :
                                     /\ own[n].args.selector = selector
                                     /\ own[n].args.property = property}
                   IN  IF calls = {} THEN Styled(heap0[2], selector, property)
                       ELSE <<own[CHOOSE n \in calls :
                                      \A k \in calls : k <= n].args.value>>
           IN  /\ fn = "aggregator" => ret = Return(Total(Len(own)))
               /\ fn = "add_doc"
                      => ret = Return(heap0[1]
                                      \o [n \in 1..Len(own) |-> own[n].args.doc])
               /\ fn = "add_style"
                      => /\ DictKeys(ret.val)
                                = DictKeys(heap0[2])
                                  \cup {own[n].args.selector : n \in 1..Len(own)}
                         /\ \A selector \in {"body", "h1"},
                               property \in {"color", "margin"} :
                                Styled(ret.val, selector, property)
                                    = Expected(selector, property)

\* Two collections made from the same list, a document added to each: the
\* second holds the list and its own document only.
ClosureInstancesApart ==
    /\ Len(trace) = 4
    /\ trace[1].fn = "new_collection"
    /\ trace[2].fn = "new_collection"
    /\ trace[3].fn = "add_doc"
    /\ trace[3].args = [self |-> trace[1].ret.val, doc |-> "doc2"]
    /\ trace[4].fn = "add_doc"
    /\ trace[4].args = [self |-> trace[2].ret.val, doc |-> "doc3"]
    /\ heap0[1] = <<"doc1">>
    /\ ret = Return(<<"doc1", "doc3">>)
    /\ heap[1] = <<"doc1">>

----------------------------------------------------------------------------
(* The library as a whole: any one call of any of its functions.           *)

Init ==
    \/ InitHex
    \/ InitMedian
    \/ InitConvert
    \/ InitLevels
    \/ InitZipmap
    \/ InitMemo
    \/ InitUpdate
    \/ InitCase
    \/ InitDocument
    \/ InitSequence
    \/ InitText
    \/ InitPlugin
    \/ InitFactorial
    \/ InitModule

Next ==
    \/ Call_hex_to_rgb
    \/ Call_get_median_font_size
    \/ Call_convert_file_format
    \/ Call_count_nested_levels
    \/ Call_zipmap
    \/ Call_word_count_memo
    \/ NextUpdate
    \/ Call_convert_case
    \/ NextDocument
    \/ NextSequence
    \/ NextText
    \/ NextPlugin
    \/ Call_factorial_r
    \/ Return_factorial_r
    \/ Next_call
    \/ Call_test

Spec == Init /\ [][Next]_vars

====
